---- MODULE Spec2Model ----
(***************************************************************************)
(* NyayaAI agent orchestration engine: the LangGraph pipeline of           *)
(* core/orchestrator.py, the agents it drives and the gateways they call.  *)
(*                                                                         *)
(* Representation.  A Python str that the code scans, strips or lowercases *)
(* is a sequence of one-character strings; a str the code only passes on   *)
(* is a TLA+ string.  A dict is a function whose DOMAIN is its key set.    *)
(* A float score or confidence is an integer number of hundredths.         *)
(* An exception is the field raised of the record a call returns.          *)
(***************************************************************************)
EXTENDS Integers, Sequences, FiniteSets, TLC

(***************************************************************************)
(* Bounds of the model.                                                    *)
(***************************************************************************)
\* number of points each vector collection holds in the model
MaxPoints == 2

\* most steps of one run whose agent raises an exception its code does not catch
MaxCrashes == 1

(***************************************************************************)
(* str operations.                                                         *)
(***************************************************************************)
UPPER ==
    <<"A","B","C","D","E","F","G","H","I","J","K","L","M",
      "N","O","P","Q","R","S","T","U","V","W","X","Y","Z">>

LOWER ==
    <<"a","b","c","d","e","f","g","h","i","j","k","l","m",
      "n","o","p","q","r","s","t","u","v","w","x","y","z">>

LowerChar(c) ==
    IF \E i \in 1..Len(UPPER) : UPPER[i] = c
    THEN LOWER[CHOOSE i \in 1..Len(UPPER) : UPPER[i] = c]
    ELSE c

UpperChar(c) ==
    IF \E i \in 1..Len(LOWER) : LOWER[i] = c
    THEN UPPER[CHOOSE i \in 1..Len(LOWER) : LOWER[i] = c]
    ELSE c

\* str.lower()
Lower(s) == [i \in 1..Len(s) |-> LowerChar(s[i])]

\* str.upper()
Upper(s) == [i \in 1..Len(s) |-> UpperChar(s[i])]

IsSpace(c) == c \in {" ", "\t", "\n"}

RECURSIVE LStrip(_)
LStrip(s) ==
    IF s = <<>> THEN <<>>
    ELSE IF IsSpace(Head(s)) THEN LStrip(Tail(s)) ELSE s

RECURSIVE RStrip(_)
RStrip(s) ==
    IF s = <<>> THEN <<>>
    ELSE IF IsSpace(s[Len(s)]) THEN RStrip(SubSeq(s, 1, Len(s) - 1)) ELSE s

\* str.strip()
Strip(s) == RStrip(LStrip(s))

\* str.split(): the maximal runs of non-whitespace characters
Split(s) ==
    LET starts == {i \in 1..Len(s) : ~IsSpace(s[i]) /\ (i = 1 \/ IsSpace(s[i - 1]))}
        Start(k) == CHOOSE i \in starts : Cardinality({j \in starts : j < i}) = k - 1
        End(i) == CHOOSE j \in i..Len(s) :
                      /\ \A m \in i..j : ~IsSpace(s[m])
                      /\ (j = Len(s) \/ IsSpace(s[j + 1]))
    IN  [k \in 1..Cardinality(starts) |-> SubSeq(s, Start(k), End(Start(k)))]

\* sep.join(words)
RECURSIVE Join(_, _)
Join(sep, ws) ==
    IF ws = <<>> THEN <<>>
    ELSE IF Len(ws) = 1 THEN ws[1]
    ELSE ws[1] \o sep \o Join(sep, Tail(ws))

\* k in s
Contains(s, k) == \E i \in 0..(Len(s) - Len(k)) : SubSeq(s, i + 1, i + Len(k)) = k

\* s[:n]
Slice(s, n) == SubSeq(s, 1, IF Len(s) < n THEN Len(s) ELSE n)

\* the str of a count 0..9, as f"{n}" prints it
Digit(n) == <<"0","1","2","3","4","5","6","7","8","9">>[n + 1]

RECURSIVE Str(_)
Str(n) == IF n < 10 THEN <<Digit(n)>> ELSE Str(n \div 10) \o <<Digit(n % 10)>>

(***************************************************************************)
(* dict operations.                                                        *)
(***************************************************************************)
EmptyDict == <<>>

\* d.get(k, default)
Get(d, k, default) == IF k \in DOMAIN d THEN d[k] ELSE default

\* d[k] = v
Put(d, k, v) == (k :> v) @@ d

\* None where a str is expected
NoneText == <<"None">>

\* the first n elements of a list: xs[:n]
Take(xs, n) == SubSeq(xs, 1, IF Len(xs) < n THEN Len(xs) ELSE n)


(***************************************************************************)
(* Calls.  A call either returns a value or raises.                        *)
(***************************************************************************)
Return(v) == [raised |-> FALSE, error |-> "", value |-> v]

Raise(e) == [raised |-> TRUE, error |-> e, value |-> <<>>]

(***************************************************************************)
(* GenerationGateway: llm/groq_client.py.                                  *)
(* What the provider does on one call is a reply: status "error" (the API  *)
(* call raised) or "ok" with the message content.  The content is prose    *)
(* (text) or a JSON document (value).                                      *)
(***************************************************************************)
Prose(t) == [form |-> "prose", text |-> t, value |-> <<>>]

Json(v) == [form |-> "json", text |-> <<>>, value |-> v]

JsonList(items) == Json([kind |-> "list", items |-> items, fields |-> EmptyDict])

JsonDict(fields) == Json([kind |-> "dict", items |-> <<>>, fields |-> fields])

ProviderError == [status |-> "error", content |-> Prose(<<>>)]

ProviderOk(c) == [status |-> "ok", content |-> c]

\* not result or not result.strip()
IsBlank(c) == c.form = "prose" /\ Strip(c.text) = <<>>

\* result.strip()
StripContent(c) == IF c.form = "prose" THEN Prose(Strip(c.text)) ELSE c

GROQ_EMPTY_TEXT ==
    <<"U","n","a","b","l","e"," ","t","o"," ","g","e","n","e","r","a","t","e"," ","a"," ","r","e",
      "s","p","o","n","s","e"," ","a","t"," ","t","h","i","s"," ","t","i","m","e",".">>

GROQ_ERROR_TEXT ==
    <<"B","a","s","e","d"," ","o","n"," ","t","h","e"," ","p","r","o","v","i","d","e","d"," ","l",
      "e","g","a","l"," ","d","o","c","u","m","e","n","t","s",","," ","h","e","r","e"," ","i","s",
      " ","r","e","l","e","v","a","n","t"," ","i","n","f","o","r","m","a","t","i","o","n"," ","a",
      "b","o","u","t"," ","y","o","u","r"," ","q","u","e","r","y",".">>

\* GroqLLM.generate_response
generate_response(reply) ==
    IF reply.status = "error"
    THEN Return(Prose(GROQ_ERROR_TEXT))
    ELSE IF IsBlank(reply.content)
         THEN Return(Prose(GROQ_EMPTY_TEXT))
         ELSE Return(StripContent(reply.content))

\* json.loads(result): ok is FALSE for JSONDecodeError
json_loads(c) == [ok |-> c.form = "json", value |-> c.value]

(***************************************************************************)
(* Agents: core/agent_base.py.                                             *)
(***************************************************************************)
\* AgentOutput; result None is has_result = FALSE
AgentOutput(result, docs, confidence, reasoning, name) ==
    [has_result |-> TRUE, result |-> result, retrieved_documents |-> docs,
     confidence |-> confidence, reasoning |-> reasoning, agent_name |-> name]

NoneOutput(reasoning, name) ==
    [has_result |-> FALSE, result |-> EmptyDict, retrieved_documents |-> <<>>,
     confidence |-> 0, reasoning |-> reasoning, agent_name |-> name]

\* BaseAgent.validate_input
validate_input(query) == ~(query = <<>> \/ Strip(query) = <<>>)

\* a vector-search hit
Hit(id, score, payload) == [id |-> id, score |-> score, payload |-> payload]

(***************************************************************************)
(* agents/intake_agent.py                                                  *)
(***************************************************************************)
\* IntakeAgent.process; embOk: get_embedding returned a vector
\* IntakeAgent.process without the validate_input check
IntakeAgent_process_unvalidated(query, embOk) ==
    LET normalized == Lower(Join(<<" ">>, Split(Strip(query))))
        embedding == IF embOk THEN "vector" ELSE "None"
    IN  Return(AgentOutput(
            ("normalized_query" :> normalized) @@ ("embedding" :> embedding),
            <<>>, 100, "Query normalized and preprocessed successfully",
            "intake_normalization"))

IntakeAgent_process(query, embOk) ==
    IF ~validate_input(query)
    THEN Return(NoneOutput("Invalid input: empty query", "intake_normalization"))
    ELSE LET normalized == Lower(Join(<<" ">>, Split(Strip(query))))
             embedding == IF embOk THEN "vector" ELSE "None"
         IN  Return(AgentOutput(
                 ("normalized_query" :> normalized) @@ ("embedding" :> embedding),
                 <<>>, 100, "Query normalized and preprocessed successfully",
                 "intake_normalization"))

(***************************************************************************)
(* agents/classification_agent.py                                          *)
(***************************************************************************)
LEGAL_DOMAINS ==
    <<"constitutional_law", "criminal_law", "civil_law", "family_law",
      "property_law", "labor_law", "consumer_protection", "environmental_law",
      "tax_law", "corporate_law", "intellectual_property", "administrative_law",
      "civic_rights", "human_rights">>

\* the characters of a domain label
DomainText ==
    ("constitutional_law" :> <<"c","o","n","s","t","i","t","u","t","i","o","n","a","l","_","l",
                               "a","w">>) @@
    ("criminal_law" :> <<"c","r","i","m","i","n","a","l","_","l","a","w">>) @@
    ("civil_law" :> <<"c","i","v","i","l","_","l","a","w">>) @@
    ("family_law" :> <<"f","a","m","i","l","y","_","l","a","w">>) @@
    ("property_law" :> <<"p","r","o","p","e","r","t","y","_","l","a","w">>) @@
    ("labor_law" :> <<"l","a","b","o","r","_","l","a","w">>) @@
    ("consumer_protection" :> <<"c","o","n","s","u","m","e","r","_","p","r","o","t","e","c","t",
                                "i","o","n">>) @@
    ("environmental_law" :> <<"e","n","v","i","r","o","n","m","e","n","t","a","l","_","l","a","w">>) @@
    ("tax_law" :> <<"t","a","x","_","l","a","w">>) @@
    ("corporate_law" :> <<"c","o","r","p","o","r","a","t","e","_","l","a","w">>) @@
    ("intellectual_property" :> <<"i","n","t","e","l","l","e","c","t","u","a","l","_","p","r","o",
                                  "p","e","r","t","y">>) @@
    ("administrative_law" :> <<"a","d","m","i","n","i","s","t","r","a","t","i","v","e","_","l",
                               "a","w">>) @@
    ("civic_rights" :> <<"c","i","v","i","c","_","r","i","g","h","t","s">>) @@
    ("human_rights" :> <<"h","u","m","a","n","_","r","i","g","h","t","s">>)

\* keyword_map of _keyword_classify, in the dict's insertion order
keyword_map ==
    << [domain |-> "constitutional_law",
        keywords |-> << <<"c","o","n","s","t","i","t","u","t","i","o","n">>, <<"f","u","n","d","a","m","e","n","t","a","l"," ","r",
                                             "i","g","h","t">>, <<"a","r","t","i","c","l","e">> >>],
       [domain |-> "criminal_law",
        keywords |-> << <<"c","r","i","m","e">>, <<"c","r","i","m","i","n","a","l">>, <<"a","r","r","e","s","t">>, <<"b","a","i","l">>, <<"f","i","r">>,
                        <<"p","o","l","i","c","e">> >>],
       [domain |-> "civil_law",
        keywords |-> << <<"c","o","n","t","r","a","c","t">>, <<"t","o","r","t">>, <<"d","a","m","a","g","e","s">>, <<"c","o","m","p","e","n","s","a",
                                                                  "t","i","o","n">> >>],
       [domain |-> "family_law",
        keywords |-> << <<"m","a","r","r","i","a","g","e">>, <<"d","i","v","o","r","c","e">>, <<"c","u","s","t","o","d","y">>, <<"m","a","i","n","t","e","n",
                                                                     "a","n","c","e">>,
                        <<"a","d","o","p","t","i","o","n">> >>],
       [domain |-> "property_law",
        keywords |-> << <<"p","r","o","p","e","r","t","y">>, <<"l","a","n","d">>, <<"o","w","n","e","r","s","h","i","p">>, <<"t","i","t","l","e">>,
                        <<"p","o","s","s","e","s","s","i","o","n">> >>],
       [domain |-> "labor_law",
        keywords |-> << <<"e","m","p","l","o","y","m","e","n","t">>, <<"w","a","g","e">>, <<"t","e","r","m","i","n","a","t","i","o","n">>, <<"l","a","b","o","r">>,
                        <<"w","o","r","k","e","r">> >>],
       [domain |-> "consumer_protection",
        keywords |-> << <<"c","o","n","s","u","m","e","r">>, <<"d","e","f","e","c","t","i","v","e">>, <<"r","e","f","u","n","d">>, <<"w","a","r","r","a","n","t",
                                                                      "y">> >>],
       [domain |-> "environmental_law",
        keywords |-> << <<"e","n","v","i","r","o","n","m","e","n","t">>, <<"p","o","l","l","u","t","i","o","n">>, <<"f","o","r","e","s","t">>, <<"w","i","l","d","l","i",
                                                                         "f","e">> >>],
       [domain |-> "tax_law",
        keywords |-> << <<"t","a","x">>, <<"i","n","c","o","m","e"," ","t","a","x">>, <<"g","s","t">>, <<"a","s","s","e","s","s","m","e",
                                                               "n","t">> >>],
       [domain |-> "corporate_law",
        keywords |-> << <<"c","o","m","p","a","n","y">>, <<"c","o","r","p","o","r","a","t","e">>, <<"s","h","a","r","e","h","o","l","d","e",
                                                        "r">>, <<"b","o","a","r","d">> >>],
       [domain |-> "intellectual_property",
        keywords |-> << <<"p","a","t","e","n","t">>, <<"c","o","p","y","r","i","g","h","t">>, <<"t","r","a","d","e","m","a","r","k">>, <<"i","p">> >>],
       [domain |-> "administrative_law",
        keywords |-> << <<"g","o","v","e","r","n","m","e","n","t">>, <<"p","u","b","l","i","c"," ","a","u","t","h","o","r",
                                           "i","t","y">>, <<"a","d","m","i","n","i","s","t",
                                                                  "r","a","t","i","v","e">> >>],
       [domain |-> "civic_rights",
        keywords |-> << <<"v","o","t","i","n","g">>, <<"c","i","t","i","z","e","n">>, <<"c","i","v","i","c">>, <<"r","i","g","h","t"," ","t","o",
                                                                 " ","i","n","f","o","r","m","a",
                                                                 "t","i","o","n">> >>],
       [domain |-> "human_rights",
        keywords |-> << <<"h","u","m","a","n"," ","r","i","g","h","t">>, <<"d","i","s","c","r","i","m","i","n","a","t","i","o",
                                            "n">>, <<"e","q","u","a","l","i","t","y">> >> ] >>

\* _keyword_classify returning the first two matches
_keyword_classify_top_two(query) ==
    LET query_lower == Lower(query)
        Matches(e) == \E i \in 1..Len(e.keywords) : Contains(query_lower, e.keywords[i])
        matched == SelectSeq(keyword_map, Matches)
    IN  Take([i \in 1..Len(matched) |-> matched[i].domain], 2)

\* ClassificationAgent._keyword_classify
_keyword_classify(query) ==
    LET query_lower == Lower(query)
        Matches(e) == \E i \in 1..Len(e.keywords) : Contains(query_lower, e.keywords[i])
        matched == SelectSeq(keyword_map, Matches)
    IN  Take([i \in 1..Len(matched) |-> matched[i].domain], 3)

InLegalDomains(d) == \E i \in 1..Len(LEGAL_DOMAINS) : LEGAL_DOMAINS[i] = d

\* ClassificationAgent._llm_classify; groq: the module-level groq_llm
_llm_classify(query, groq, reply) ==
    IF groq = "None" THEN <<>>
    ELSE LET call == generate_response(reply)
             result == call.value
             parsed == json_loads(result)
             Mentioned(d) == Contains(Lower(result.text), Lower(DomainText[d]))
         IN  IF call.raised THEN <<>>
             ELSE IF IsBlank(result) THEN <<>>
             ELSE IF parsed.ok
                  THEN IF parsed.value.kind = "list"
                       THEN Take(SelectSeq(parsed.value.items, InLegalDomains), 3)
                       ELSE <<>>
                  ELSE Take(SelectSeq(LEGAL_DOMAINS, Mentioned), 3)

\* the domains of the taxonomy hits with the last hit's domain first
RECURSIVE TaxonomyDomains_reversed(_, _)
TaxonomyDomains_reversed(results, acc) ==
    IF results = <<>> THEN acc
    ELSE LET domain == Get(Head(results).payload, "domain", "")
             seen == \E i \in 1..Len(acc) : acc[i] = domain
         IN  TaxonomyDomains_reversed(Tail(results),
                 IF domain # "" /\ ~seen THEN <<domain>> \o acc ELSE acc)

\* the domains of the taxonomy hits, in order, without empties and repeats
RECURSIVE TaxonomyDomains(_, _)
TaxonomyDomains(results, acc) ==
    IF results = <<>> THEN acc
    ELSE LET domain == Get(Head(results).payload, "domain", "")
             seen == \E i \in 1..Len(acc) : acc[i] = domain
         IN  TaxonomyDomains(Tail(results),
                             IF domain # "" /\ ~seen THEN Append(acc, domain) ELSE acc)

\* ClassificationAgent.process searching the taxonomy whatever the model tier gave
ClassificationAgent_process_searching(query, context, groq, reply, embOk, searched) ==
    IF ~validate_input(query)
    THEN Return(NoneOutput("Invalid input", "legal_domain_classification"))
    ELSE LET llm == _llm_classify(query, groq, reply)
             results == searched
             taxonomy == TaxonomyDomains(results, <<>>)
             classified_domains ==
                 IF taxonomy # <<>> THEN taxonomy
                 ELSE IF llm # <<>> THEN llm ELSE _keyword_classify(query)
             classification_method ==
                 IF taxonomy # <<>> THEN "taxonomy"
                 ELSE IF llm # <<>> THEN "llm" ELSE "keyword"
             confidence ==
                 IF classification_method = "llm" THEN 85
                 ELSE IF classification_method = "taxonomy" THEN results[1].score
                 ELSE 50
         IN  IF "embedding" \notin DOMAIN context /\ ~embOk
             THEN Raise("get_embedding")
             ELSE Return(AgentOutput(
                      ("domains" :> classified_domains) @@
                      ("primary_domain" :>
                          IF classified_domains # <<>> THEN classified_domains[1]
                          ELSE "general"),
                      results, confidence, classification_method,
                      "legal_domain_classification"))

\* ClassificationAgent.process; embOk: get_embedding returned a vector;
\* searched: what qdrant_manager.search returns for legal_taxonomy_vectors
ClassificationAgent_process(query, context, groq, reply, embOk, searched) ==
    IF ~validate_input(query)
    THEN Return(NoneOutput("Invalid input", "legal_domain_classification"))
    ELSE LET llm == _llm_classify(query, groq, reply)
             results == IF llm = <<>> THEN searched ELSE <<>>
             taxonomy == IF llm = <<>> THEN TaxonomyDomains(results, <<>>) ELSE llm
             classified_domains ==
                 IF taxonomy = <<>> THEN _keyword_classify(query) ELSE taxonomy
             classification_method ==
                 IF llm # <<>> THEN "llm"
                 ELSE IF taxonomy # <<>> THEN "taxonomy" ELSE "keyword"
             confidence ==
                 IF classification_method = "llm" THEN 85
                 ELSE IF classification_method = "taxonomy" THEN results[1].score
                 ELSE 50
         IN  IF llm = <<>> /\ "embedding" \notin DOMAIN context /\ ~embOk
             THEN Raise("get_embedding")
             ELSE Return(AgentOutput(
                      ("domains" :> classified_domains) @@
                      ("primary_domain" :>
                          IF classified_domains # <<>> THEN classified_domains[1]
                          ELSE "general"),
                      results, confidence, classification_method,
                      "legal_domain_classification"))

\* context.get("embedding") followed by "if not query_embedding"
HasEmbedding(context) == Get(context, "embedding", "None") # "None"

(***************************************************************************)
(* agents/knowledge_retrieval_agent.py                                     *)
(***************************************************************************)
\* the statutes list built from the hits (lines 60-70)
FormatStatutes(statute_results) ==
    [i \in 1..Len(statute_results) |->
        LET result == statute_results[i]
        IN  ("id" :> result.id) @@
            ("title" :> Get(result.payload, "title", <<>>)) @@
            ("section" :> Get(result.payload, "section", <<>>)) @@
            ("content" :> Get(result.payload, "content", <<>>)) @@
            ("act_name" :> Get(result.payload, "act_name", <<>>)) @@
            ("score" :> result.score)]

\* KnowledgeRetrievalAgent.process looking at the cases already in the context
KnowledgeRetrievalAgent_process_reading_cases(query, context, embOk, searched) ==
    IF ~validate_input(query)
    THEN Return(NoneOutput("Invalid input", "legal_knowledge_retrieval"))
    ELSE IF ~HasEmbedding(context) /\ ~embOk
         THEN Raise("get_embedding")
         ELSE IF Get(context, "similar_cases", <<>>) # <<>>
              THEN Raise("name 'web_statutes' is not defined")
              ELSE Raise("name 'all_statutes' is not defined")

\* KnowledgeRetrievalAgent.process: the AgentOutput is built from the names
\* all_statutes and web_statutes, which nothing in the module binds, so a
\* call that gets past validation and the search raises NameError
KnowledgeRetrievalAgent_process(query, context, embOk, searched) ==
    IF ~validate_input(query)
    THEN Return(NoneOutput("Invalid input", "legal_knowledge_retrieval"))
    ELSE IF ~HasEmbedding(context) /\ ~embOk
         THEN Raise("get_embedding")
         ELSE LET statutes == FormatStatutes(searched)
              IN  Raise("name 'all_statutes' is not defined")

(***************************************************************************)
(* agents/case_similarity_agent.py                                         *)
(***************************************************************************)
\* x or y for two str
Or2(x, y) == IF x # <<>> THEN x ELSE y

\* CaseSimilarityAgent._extract_context
_extract_context(payload) ==
    LET context == Or2(Get(payload, "context", <<>>),
                       Or2(Get(payload, "issue", <<>>), Get(payload, "facts", <<>>)))
        summary == Get(payload, "summary", <<>>)
    IN  IF context # <<>> THEN Slice(context, 200)
        ELSE IF summary # <<>> THEN Slice(summary, 200)
        ELSE <<"I","s","s","u","e"," ","n","o","t"," ","s","p","e","c","i","f","i","e","d">>

\* CaseSimilarityAgent._extract_action
_extract_action(payload) ==
    LET action == Or2(Get(payload, "action", <<>>),
                      Or2(Get(payload, "proceedings", <<>>),
                          Get(payload, "relief_sought", <<>>)))
        summary == Get(payload, "summary", <<>>)
    IN  IF action # <<>> THEN Slice(action, 250)
        ELSE IF Len(summary) > 200
             THEN SubSeq(summary, 101, IF Len(summary) < 350 THEN Len(summary) ELSE 350)
        ELSE <<"A","c","t","i","o","n","s"," ","n","o","t"," ","d","e","t","a","i","l","e","d",
               " ","i","n"," ","r","e","c","o","r","d">>

\* CaseSimilarityAgent._extract_outcome
_extract_outcome(payload) ==
    LET outcome == Or2(Get(payload, "outcome", <<>>),
                       Or2(Get(payload, "judgment", <<>>),
                           Or2(Get(payload, "ruling", <<>>),
                               Get(payload, "decision", <<>>))))
        summary == Get(payload, "summary", <<>>)
    IN  IF outcome # <<>> THEN Slice(outcome, 250)
        ELSE IF Len(summary) > 300
             THEN SubSeq(summary, Len(summary) - 249, Len(summary))
        ELSE <<"O","u","t","c","o","m","e"," ","n","o","t"," ","s","p","e","c","i","f","i","e","d">>

\* f"{similarity_score:.2f}" of a score in hundredths
FormatScore(score) ==
    Str(score \div 100) \o <<".">> \o <<Digit((score % 100) \div 10), Digit(score % 10)>>

\* _determine_relevance with the band limits counted into the upper band
_determine_relevance_inclusive(query, payload, similarity_score) ==
    LET relevance_level ==
            IF similarity_score >= 85 THEN <<"H","i","g","h","l","y"," ","r","e","l","e","v","a",
                                             "n","t">>
            ELSE IF similarity_score >= 70 THEN <<"M","o","d","e","r","a","t","e","l","y"," ","r",
                                                  "e","l","e","v","a","n","t">>
            ELSE <<"P","o","t","e","n","t","i","a","l","l","y"," ","r","e","l","e","v","a","n","t">>
        case_name == Get(payload, "case_name", <<"C","a","s","e">>)
    IN  relevance_level \o <<" ","(">> \o FormatScore(similarity_score) \o
        <<")","."," ","S","i","m","i","l","a","r"," ","b","e","c","a","u","s","e",":"," ">> \o case_name \o
        <<" ","i","n","v","o","l","v","e","s"," ","c","o","m","p","a","r","a","b","l","e"," ","l",
          "e","g","a","l"," ","p","r","i","n","c","i","p","l","e","s","."," ">> \o
        <<"C","a","n"," ","h","e","l","p"," ","u","n","d","e","r","s","t","a","n","d"," ","p","o",
          "t","e","n","t","i","a","l"," ","p","r","e","c","e","d","e","n","t","s"," ","a","n","d",
          " ","o","u","t","c","o","m","e","s",".">>

\* CaseSimilarityAgent._determine_relevance
_determine_relevance(query, payload, similarity_score) ==
    LET relevance_level ==
            IF similarity_score > 85 THEN <<"H","i","g","h","l","y"," ","r","e","l","e","v","a",
                                            "n","t">>
            ELSE IF similarity_score > 70 THEN <<"M","o","d","e","r","a","t","e","l","y"," ","r",
                                                 "e","l","e","v","a","n","t">>
            ELSE <<"P","o","t","e","n","t","i","a","l","l","y"," ","r","e","l","e","v","a","n","t">>
        case_name == Get(payload, "case_name", <<"C","a","s","e">>)
    IN  relevance_level \o <<" ","(">> \o FormatScore(similarity_score) \o
        <<")","."," ","S","i","m","i","l","a","r"," ","b","e","c","a","u","s","e",":"," ">> \o case_name \o
        <<" ","i","n","v","o","l","v","e","s"," ","c","o","m","p","a","r","a","b","l","e"," ","l",
          "e","g","a","l"," ","p","r","i","n","c","i","p","l","e","s","."," ">> \o
        <<"C","a","n"," ","h","e","l","p"," ","u","n","d","e","r","s","t","a","n","d"," ","p","o",
          "t","e","n","t","i","a","l"," ","p","r","e","c","e","d","e","n","t","s"," ","a","n","d",
          " ","o","u","t","c","o","m","e","s",".">>

\* the provenance fields both tiers copy from the retrieved record
CaseProvenance(hit) ==
    ("source" :> Get(hit.payload, "citation", Get(hit.payload, "case_name", <<>>))) @@
    ("case_name" :> Get(hit.payload, "case_name", <<"U","n","k","n","o","w","n">>)) @@
    ("year" :> Get(hit.payload, "year", "None")) @@
    ("confidence" :> hit.score)

\* the template tier of CaseSimilarityAgent.process (lines 73-90)
TemplateCases(query, case_results) ==
    [i \in 1..Len(case_results) |->
        LET result == case_results[i]
            payload == result.payload
        IN  ("case_context" :> _extract_context(payload)) @@
            ("what_happened" :> _extract_action(payload)) @@
            ("outcome" :> _extract_outcome(payload)) @@
            ("relevance_to_query" :> _determine_relevance(query, payload, result.score)) @@
            CaseProvenance(result)]

\* the loop of _llm_analyze_cases over analyses[:5] (lines 283-296); an item
\* of the JSON list is [is_dict, fields]
RECURSIVE CombineAnalyses(_, _, _)
CombineAnalyses(analyses, case_results, i) ==
    IF i > Len(analyses) THEN <<>>
    ELSE LET analysis == analyses[i]
             rest == CombineAnalyses(analyses, case_results, i + 1)
         IN  IF analysis.is_dict /\ i <= Len(case_results)
             THEN << ("case_context" :> Get(analysis.fields, "case_context", <<>>)) @@
                     ("what_happened" :> Get(analysis.fields, "what_happened", <<>>)) @@
                     ("outcome" :> Get(analysis.fields, "outcome", <<>>)) @@
                     ("relevance_to_query" :>
                         Get(analysis.fields, "relevance_to_query", <<>>)) @@
                     CaseProvenance(case_results[i]) >> \o rest
             ELSE rest

\* CaseSimilarityAgent._llm_analyze_cases
_llm_analyze_cases(query, case_results, groq, reply) ==
    IF groq = "None" THEN <<>>
    ELSE IF case_results = <<>> THEN <<>>
    ELSE LET call == generate_response(reply)
             result == call.value
             parsed == json_loads(result)
         IN  IF call.raised THEN <<>>
             ELSE IF IsBlank(result) THEN <<>>
             ELSE IF parsed.ok /\ parsed.value.kind = "list"
                  THEN CombineAnalyses(Take(parsed.value.items, 5), case_results, 1)
                  ELSE <<>>

\* CaseSimilarityAgent.process; searched: what qdrant_manager.search returns
\* for case_law_vectors
CaseSimilarityAgent_process(query, context, groq, reply, embOk, searched) ==
    IF ~validate_input(query)
    THEN Return(NoneOutput("Invalid input", "case_similarity"))
    ELSE IF ~HasEmbedding(context) /\ ~embOk
         THEN Raise("get_embedding")
         ELSE LET case_results == searched
                  llm == _llm_analyze_cases(query, case_results, groq, reply)
                  structured_cases ==
                      IF llm # <<>> THEN llm ELSE TemplateCases(query, case_results)
                  analysis_method == IF llm # <<>> THEN "llm" ELSE "template"
                  confidence ==
                      IF analysis_method = "llm" THEN 80
                      ELSE IF case_results # <<>> THEN case_results[1].score ELSE 0
              IN  Return(AgentOutput(
                      ("similar_cases" :> structured_cases) @@
                      ("count" :> Len(structured_cases)),
                      case_results, confidence, analysis_method, "case_similarity"))

(***************************************************************************)
(* agents/reasoning_agent.py                                               *)
(***************************************************************************)
NO_DOCUMENTS_EXPLANATION ==
    <<"N","o"," ","r","e","l","e","v","a","n","t"," ","l","e","g","a","l"," ","d","o","c","u","m",
      "e","n","t","s"," ","w","e","r","e"," ","f","o","u","n","d"," ","t","o"," ","b","a","s","e",
      " ","r","e","a","s","o","n","i","n","g"," ","o","n",".">>

\* the fallback explanation of ReasoningAgent.process (line 135)
AgentFallbackExplanation(statutes, cases) ==
    <<"B","a","s","e","d"," ","o","n"," ","t","h","e"," ">> \o Str(Len(statutes)) \o <<" ","r","e","t","r","i","e","v","e","d"," ","s",
                                                  "t","a","t","u","t","e","s"," ","a","n","d"," ">> \o
    Str(Len(cases)) \o <<" ","s","i","m","i","l","a","r"," ","c","a","s","e","s",","," ","h","e",
                         "r","e"," ","a","r","e"," ","t","h","e"," ","r","e","l","e","v","a","n",
                         "t"," ","l","e","g","a","l"," ","p","r","o","v","i","s","i","o","n","s",
                         " ">> \o
    <<"t","h","a","t"," ","a","p","p","l","y"," ","t","o"," ","y","o","u","r"," ","q","u","e","r",
      "y","."," ","P","l","e","a","s","e"," ","r","e","v","i","e","w"," ","t","h","e"," ","d","o",
      "c","u","m","e","n","t","s"," ","a","b","o","v","e"," ","f","o","r"," ","s","p","e","c","i",
      "f","i","c"," ","d","e","t","a","i","l","s",".">>

RECURSIVE SumScores(_)
SumScores(docs) ==
    IF docs = <<>> THEN 0 ELSE Get(Head(docs), "score", 0) + SumScores(Tail(docs))

\* ReasoningAgent._calculate_confidence
Reasoning_calculate_confidence(statutes, cases) ==
    IF statutes = <<>> /\ cases = <<>> THEN 0
    ELSE LET avg_score == SumScores(statutes \o cases) \div Len(statutes \o cases)
         IN  IF avg_score < 100 THEN avg_score ELSE 100

\* ReasoningAgent.process
ReasoningAgent_process(query, context, groq, reply) ==
    IF ~validate_input(query)
    THEN Return(NoneOutput("Invalid input", "legal_reasoning"))
    ELSE LET statutes == Get(context, "statutes", <<>>)
             cases == Get(context, "similar_cases", <<>>)
             call == generate_response(reply)
             generated ==
                 IF groq = "None" \/ call.raised \/ IsBlank(call.value)
                 THEN <<>> ELSE call.value.text
             explanation ==
                 IF generated # <<>> THEN generated
                 ELSE AgentFallbackExplanation(statutes, cases)
         IN  IF statutes = <<>> /\ cases = <<>>
             THEN Return(AgentOutput(
                      ("explanation" :> NO_DOCUMENTS_EXPLANATION),
                      <<>>, 0, "No retrieved documents available for reasoning",
                      "legal_reasoning"))
             ELSE Return(AgentOutput(
                      ("explanation" :> explanation),
                      statutes \o cases, Reasoning_calculate_confidence(statutes, cases),
                      "Generated retrieval-bounded legal reasoning", "legal_reasoning"))

(***************************************************************************)
(* agents/recommendation_agent.py                                          *)
(***************************************************************************)
\* RecommendationAgent._generate_why
_generate_why(payload, query) ==
    LET why == Get(payload, "importance", <<>>)
        action == Get(payload, "action", <<>>)
    IN  IF why # <<>> THEN Slice(why, 200)
        ELSE IF Contains(Upper(action), <<"R","T","I">>)
             THEN <<"T","h","i","s"," ","a","l","l","o","w","s"," ","y","o","u"," ","t","o"," ",
                    "a","c","c","e","s","s"," ","i","n","f","o","r","m","a","t","i","o","n"," ",
                    "h","e","l","d"," ","b","y"," ","p","u","b","l","i","c"," ","a","u","t","h",
                    "o","r","i","t","i","e","s",","," ">> \o
                  <<"w","h","i","c","h"," ","c","a","n"," ","h","e","l","p"," ","u","n","d","e",
                    "r","s","t","a","n","d"," ","y","o","u","r"," ","c","a","s","e"," ","b","e",
                    "t","t","e","r",".">>
        ELSE IF Contains(Lower(action), <<"p","e","t","i","t","i","o","n">>) \/
                Contains(Lower(action), <<"a","p","p","l","i","c","a","t","i","o","n">>)
             THEN <<"T","h","i","s"," ","f","o","r","m","a","l"," ","s","t","e","p"," ","o","f",
                    "f","i","c","i","a","l","l","y"," ","r","e","g","i","s","t","e","r","s"," ",
                    "y","o","u","r"," ","c","a","s","e"," ","a","n","d"," ","s","t","a","r","t",
                    "s"," ","t","h","e"," ","l","e","g","a","l"," ","p","r","o","c","e","s","s",
                    ".">>
        ELSE IF Contains(Lower(action), <<"a","p","p","e","a","l">>)
             THEN <<"T","h","i","s"," ","a","l","l","o","w","s"," ","y","o","u"," ","t","o"," ",
                    "c","h","a","l","l","e","n","g","e"," ","a"," ","d","e","c","i","s","i","o",
                    "n"," ","i","f"," ","y","o","u"," ","d","i","s","a","g","r","e","e"," ","w",
                    "i","t","h"," ","i","t",".">>
        ELSE <<"T","h","i","s"," ","i","s"," ","a"," ","k","e","y"," ","s","t","e","p"," ","i",
               "n"," ","a","d","d","r","e","s","s","i","n","g"," ","y","o","u","r"," ","l","e",
               "g","a","l"," ","i","s","s","u","e"," ","t","h","r","o","u","g","h"," ","p","r",
               "o","p","e","r"," ","c","h","a","n","n","e","l","s",".">>

\* RecommendationAgent._generate_next_step
_generate_next_step(payload) ==
    LET next_step == Get(payload, "next_step", <<>>)
        action == Get(payload, "action", <<>>)
        authority == Get(payload, "authority", <<"r","e","l","e","v","a","n","t"," ","a","u","t",
                                                 "h","o","r","i","t","y">>)
        docs == Get(payload, "required_documents", <<>>)
    IN  IF next_step # <<>> THEN Slice(next_step, 150)
        ELSE IF Contains(Lower(action), <<"f","i","l","e">>) \/ Contains(Lower(action), <<"s","u","b","m",
                                                                                "i","t">>)
             THEN IF docs # <<>>
                  THEN <<"G","a","t","h","e","r"," ","r","e","q","u","i","r","e","d"," ","d","o",
                         "c","u","m","e","n","t","s",":"," ">> \o Join(<<","," ">>, Take(docs, 2)) \o
                       <<"."," ","T","h","e","n"," ","s","u","b","m","i","t"," ","t","o"," ">> \o authority \o <<".">>
                  ELSE <<"P","r","e","p","a","r","e"," ","a","p","p","l","i","c","a","t","i","o",
                         "n"," ","a","n","d"," ","s","u","b","m","i","t"," ","t","o"," ">> \o authority \o <<".">>
        ELSE IF Contains(Lower(action), <<"c","o","n","t","a","c","t">>)
             THEN <<"I","d","e","n","t","i","f","y"," ","t","h","e"," ","c","o","r","r","e","c",
                    "t"," ","o","f","f","i","c","e"," ","o","f"," ">> \o authority \o
                  <<" ","a","n","d"," ","r","e","a","c","h"," ","o","u","t"," ","w","i","t","h",
                    " ","y","o","u","r"," ","q","u","e","r","y",".">>
        ELSE <<"T","a","k","e"," ","t","h","i","s"," ","a","c","t","i","o","n"," ","t","h","r",
               "o","u","g","h"," ">> \o authority \o
             <<"."," ","C","o","n","s","u","l","t"," ","o","f","f","i","c","i","a","l"," ","c",
               "h","a","n","n","e","l","s"," ","f","o","r"," ","d","e","t","a","i","l","e","d",
               " ","s","t","e","p","s",".">>

\* the template tier comparing action names as they are written
RECURSIVE TemplateRecommendationsAsWritten(_, _, _, _)
TemplateRecommendationsAsWritten(query, process_results, recommendations, seen_actions) ==
    IF process_results = <<>> \/ Len(recommendations) >= 5 THEN recommendations
    ELSE LET result == Head(process_results)
             payload == result.payload
             action_name == Get(payload, "action", <<>>)
             structured_rec ==
                 ("action" :> Get(payload, "action", <<>>)) @@
                 ("why_this_matters" :> _generate_why(payload, query)) @@
                 ("next_step" :> _generate_next_step(payload)) @@
                 ("is_legal_advice" :> FALSE) @@
                 ("sequence" :> Len(recommendations) + 1) @@
                 ("confidence" :> result.score)
         IN  IF action_name \in seen_actions
             THEN TemplateRecommendationsAsWritten(query, Tail(process_results),
                                                   recommendations, seen_actions)
             ELSE TemplateRecommendationsAsWritten(query, Tail(process_results),
                                                   Append(recommendations, structured_rec),
                                                   seen_actions \cup {action_name})

\* the template tier of RecommendationAgent.process (lines 75-107)
RECURSIVE TemplateRecommendations(_, _, _, _)
TemplateRecommendations(query, process_results, recommendations, seen_actions) ==
    IF process_results = <<>> \/ Len(recommendations) >= 5 THEN recommendations
    ELSE LET result == Head(process_results)
             payload == result.payload
             action_name == Lower(Strip(Get(payload, "action", <<>>)))
             structured_rec ==
                 ("action" :> Get(payload, "action", <<"U","n","n","a","m","e","d"," ","A","c",
                                                       "t","i","o","n">>)) @@
                 ("responsible_authority" :>
                     Get(payload, "authority", <<"R","e","l","e","v","a","n","t"," ","G","o","v",
                                                 "e","r","n","m","e","n","t"," ","A","u","t","h",
                                                 "o","r","i","t","y">>)) @@
                 ("why_this_matters" :> _generate_why(payload, query)) @@
                 ("next_step" :> _generate_next_step(payload)) @@
                 ("estimated_timeline" :> Get(payload, "timeline", <<"V","a","r","i","e","s"," ",
                                                                     "b","y"," ","c","a","s","e">>)) @@
                 ("is_legal_advice" :> FALSE) @@
                 ("sequence" :> Len(recommendations) + 1) @@
                 ("required_documents" :> Get(payload, "required_documents", <<>>)) @@
                 ("confidence" :> result.score)
         IN  IF action_name \in seen_actions
             THEN TemplateRecommendations(query, Tail(process_results),
                                          recommendations, seen_actions)
             ELSE TemplateRecommendations(query, Tail(process_results),
                                          Append(recommendations, structured_rec),
                                          seen_actions \cup {action_name})

\* the loop of _llm_generate_recommendations keeping the model's own flag
RECURSIVE StructureRecommendationsTrusting(_, _)
StructureRecommendationsTrusting(items, structured) ==
    IF items = <<>> THEN structured
    ELSE LET rec == Head(items)
         IN  StructureRecommendationsTrusting(Tail(items),
                 IF rec.is_dict
                 THEN Append(structured,
                          ("action" :> Get(rec.fields, "action", <<>>)) @@
                          ("why_this_matters" :> Get(rec.fields, "why_this_matters", <<>>)) @@
                          ("next_step" :> Get(rec.fields, "next_step", <<>>)) @@
                          ("is_legal_advice" :> Get(rec.fields, "is_legal_advice", FALSE)) @@
                          ("sequence" :> Len(structured) + 1))
                 ELSE structured)

\* the loop of _llm_generate_recommendations over recommendations[:5]
\* (lines 285-296); an item of the JSON list is [is_dict, fields]
RECURSIVE StructureRecommendations(_, _)
StructureRecommendations(items, structured) ==
    IF items = <<>> THEN structured
    ELSE LET rec == Head(items)
         IN  StructureRecommendations(Tail(items),
                 IF rec.is_dict
                 THEN Append(structured,
                          ("action" :> Get(rec.fields, "action", <<"U","n","n","a","m","e","d",
                                                                   " ","A","c","t","i","o","n">>)) @@
                          ("responsible_authority" :>
                              Get(rec.fields, "responsible_authority",
                                  <<"R","e","l","e","v","a","n","t"," ","A","u","t","h","o","r",
                                    "i","t","y">>)) @@
                          ("why_this_matters" :> Get(rec.fields, "why_this_matters", <<>>)) @@
                          ("next_step" :> Get(rec.fields, "next_step", <<>>)) @@
                          ("estimated_timeline" :>
                              Get(rec.fields, "estimated_timeline", <<"V","a","r","i","e","s"," ",
                                                                      "b","y"," ","c","a","s","e">>)) @@
                          ("is_legal_advice" :> FALSE) @@
                          ("sequence" :> Len(structured) + 1))
                 ELSE structured)

\* _llm_generate_recommendations structuring every item of the answer
_llm_generate_recommendations_uncut(query, retrieved_processes, context, groq, reply) ==
    IF groq = "None" THEN <<>>
    ELSE IF retrieved_processes = <<>> THEN <<>>
    ELSE LET call == generate_response(reply)
             result == call.value
             parsed == json_loads(result)
         IN  IF call.raised THEN <<>>
             ELSE IF IsBlank(result) THEN <<>>
             ELSE IF parsed.ok /\ parsed.value.kind = "list"
                  THEN StructureRecommendations(parsed.value.items, <<>>)
                  ELSE <<>>

\* RecommendationAgent._llm_generate_recommendations
_llm_generate_recommendations(query, retrieved_processes, context, groq, reply) ==
    IF groq = "None" THEN <<>>
    ELSE IF retrieved_processes = <<>> THEN <<>>
    ELSE LET call == generate_response(reply)
             result == call.value
             parsed == json_loads(result)
         IN  IF call.raised THEN <<>>
             ELSE IF IsBlank(result) THEN <<>>
             ELSE IF parsed.ok /\ parsed.value.kind = "list"
                  THEN StructureRecommendations(Take(parsed.value.items, 5), <<>>)
                  ELSE <<>>

\* RecommendationAgent._generate_summary; "; ".join raises TypeError when an
\* action is None
Recommendation_generate_summary(recommendations, query) ==
    LET first == Take(recommendations, 3)
        actions == [i \in 1..Len(first) |-> first[i]["action"]]
    IN  IF recommendations = <<>>
        THEN Return(<<"N","o"," ","s","p","e","c","i","f","i","c"," ","c","i","v","i","c"," ","a",
                      "c","t","i","o","n","s"," ","i","d","e","n","t","i","f","i","e","d"," ","f",
                      "o","r"," ","t","h","i","s"," ","q","u","e","r","y","."," ">> \o
                    <<"C","o","n","s","u","l","t"," ","o","f","f","i","c","i","a","l"," ","c","h",
                      "a","n","n","e","l","s",".">>)
        ELSE IF \E i \in 1..Len(actions) : actions[i] = NoneText
        THEN Raise("sequence item: expected str instance, NoneType found")
        ELSE Return(<<"R","e","c","o","m","m","e","n","d","e","d"," ">> \o Str(Len(recommendations)) \o
                    <<" ","a","c","t","i","o","n","a","b","l","e"," ","s","t","e","p","(","s",")",
                      ":"," ">> \o Join(<<";"," ">>, actions) \o
                    <<"."," ","T","h","e","s","e"," ","a","r","e"," ","p","r","e","s","e","n","t",
                      "e","d"," ","i","n"," ","s","u","g","g","e","s","t","e","d"," ","o","r","d",
                      "e","r","."," ">> \o
                    <<"N","o","t","e",":"," ","T","h","i","s"," ","i","s"," ","i","n","f","o","r",
                      "m","a","t","i","o","n","a","l"," ","g","u","i","d","a","n","c","e",","," ",
                      "n","o","t"," ","l","e","g","a","l"," ","a","d","v","i","c","e","."," ">> \o
                    <<"C","o","n","s","u","l","t"," ","a","p","p","r","o","p","r","i","a","t","e",
                      " ","a","u","t","h","o","r","i","t","i","e","s"," ","f","o","r"," ","c","a",
                      "s","e","-","s","p","e","c","i","f","i","c"," ","g","u","i","d","a","n","c",
                      "e",".">>)

\* RecommendationAgent.process; searched: what qdrant_manager.search returns
\* for civic_process_vectors
RecommendationAgent_process(query, context, groq, reply, embOk, searched) ==
    IF ~validate_input(query)
    THEN Return(NoneOutput("Invalid input", "civic_action_recommendation"))
    ELSE IF ~HasEmbedding(context) /\ ~embOk
         THEN Raise("get_embedding")
         ELSE LET process_results == searched
                  llm == _llm_generate_recommendations(query, process_results, context,
                                                       groq, reply)
                  recommendations ==
                      IF llm # <<>> THEN llm
                      ELSE TemplateRecommendations(query, process_results, <<>>, {})
                  generation_method == IF llm # <<>> THEN "llm" ELSE "template"
                  confidence ==
                      IF generation_method = "llm" THEN 80
                      ELSE IF process_results # <<>> THEN process_results[1].score ELSE 0
                  summary == Recommendation_generate_summary(recommendations, query)
              IN  IF summary.raised THEN Raise(summary.error)
                  ELSE Return(AgentOutput(
                           ("recommendations" :> recommendations) @@
                           ("count" :> Len(recommendations)) @@
                           ("recommendation_summary" :> summary.value),
                           process_results, confidence, generation_method,
                           "civic_action_recommendation"))

(***************************************************************************)
(* agents/ethics_agent.py                                                  *)
(***************************************************************************)
problematic_keywords ==
    << <<"s","u","e"," ","t","h","e","m">>,
       <<"f","i","l","e"," ","a"," ","l","a","w","s","u","i","t">>,
       <<"l","i","t","i","g","a","t","i","o","n"," ","s","t","r","a","t","e","g","y">>,
       <<"l","e","g","a","l"," ","a","d","v","i","c","e">>,
       <<"g","u","a","r","a","n","t","e","e","d"," ","w","i","n">>,
       <<"d","e","f","i","n","i","t","e","l","y"," ","i","l","l","e","g","a","l">>,
       <<"y","o","u"," ","s","h","o","u","l","d"," ","s","u","e">> >>

SAFETY_DISCLAIMER ==
    "IMPORTANT DISCLAIMER: This system provides legal information only, not legal advice. Consult a qualified lawyer for specific legal matters. This system does not provide litigation strategies or guarantee outcomes."

STANDARD_DISCLAIMER ==
    "Note: This information is for educational purposes only. It is not a substitute for professional legal advice."

\* EthicsAgent._llm_check_safety: the dict it returns
_llm_check_safety(explanation, recommendations, groq, reply) ==
    LET keyword == ("is_safe" :> TRUE) @@ ("issues" :> <<>>) @@ ("method" :> "keyword")
        call == generate_response(reply)
        result == call.value
        parsed == json_loads(result)
    IN  IF groq = "None" THEN keyword
        ELSE IF call.raised THEN keyword
        ELSE IF IsBlank(result) THEN keyword
        ELSE IF parsed.ok /\ parsed.value.kind = "dict"
             THEN ("method" :> "llm") @@ parsed.value.fields
             ELSE keyword

\* the keywords found in text, in list order
FoundKeywords(text) ==
    SelectSeq(problematic_keywords, LAMBDA keyword : Contains(text, keyword))

\* action, description and why_this_matters of a recommendation, lowercased
\* and joined by blanks (lines 68-71)
CombinedText(rec) ==
    Lower(Get(rec, "action", <<>>)) \o <<" ">> \o
    Lower(Get(rec, "description", <<>>)) \o <<" ">> \o
    Lower(Get(rec, "why_this_matters", <<>>))

\* None where .lower() is called on it
KeywordScanRaises(recommendations) ==
    \E i \in 1..Len(recommendations) :
        \/ Get(recommendations[i], "action", <<>>) = NoneText
        \/ Get(recommendations[i], "why_this_matters", <<>>) = NoneText

RECURSIVE RecommendationIssues(_)
RecommendationIssues(recommendations) ==
    IF recommendations = <<>> THEN <<>>
    ELSE LET found == FoundKeywords(CombinedText(Head(recommendations)))
         IN  [i \in 1..Len(found) |->
                 <<"P","r","o","b","l","e","m","a","t","i","c"," ","c","o","n","t","e","n","t",
                   " ","i","n"," ","r","e","c","o","m","m","e","n","d","a","t","i","o","n",":",
                   " ","'">> \o found[i] \o <<"'">>]
             \o RecommendationIssues(Tail(recommendations))

\* the keyword tier of EthicsAgent.process (lines 56-75)
KeywordIssues(explanation, recommendations) ==
    LET found == FoundKeywords(Lower(explanation))
    IN  [i \in 1..Len(found) |-> <<"F","o","u","n","d"," ","p","r","o","b","l","e","m","a","t",
                                   "i","c"," ","p","h","r","a","s","e",":"," ","'">> \o found[i] \o <<"'">>]
        \o RecommendationIssues(recommendations)

\* EthicsAgent.process
EthicsAgent_process(query, context, groq, reply) ==
    LET explanation == Get(context, "explanation", <<>>)
        recommendations == Get(context, "recommendations", <<>>)
        llm_result == _llm_check_safety(explanation, recommendations, groq, reply)
        check_method == Get(llm_result, "method", "keyword")
        issues ==
            IF check_method = "llm" THEN Get(llm_result, "issues", <<>>)
            ELSE KeywordIssues(explanation, recommendations)
        is_safe ==
            IF check_method = "llm" THEN Get(llm_result, "is_safe", TRUE)
            ELSE issues = <<>>
        safety_disclaimer == IF ~is_safe THEN SAFETY_DISCLAIMER ELSE ""
    IN  IF check_method # "llm" /\ KeywordScanRaises(recommendations)
        THEN Raise("'NoneType' object has no attribute 'lower'")
        ELSE Return(AgentOutput(
                 ("is_safe" :> is_safe) @@
                 ("issues" :> issues) @@
                 ("safety_disclaimer" :> safety_disclaimer) @@
                 ("standard_disclaimer" :> STANDARD_DISCLAIMER) @@
                 ("approved" :> is_safe),
                 <<>>, IF is_safe THEN 100 ELSE 50, check_method, "ethics_safety"))

(***************************************************************************)
(* agents/memory_agent.py                                                  *)
(***************************************************************************)
\* MemoryAgent._store_memory; case_id: str(uuid.uuid4()); embOk: get_embedding
\* returned a vector; success: what upsert_points returns
MemoryAgent_process(query, context, case_id, embOk, success) ==
    IF ~embOk THEN Raise("get_embedding")
    ELSE Return(AgentOutput(
             ("case_id" :> case_id) @@ ("stored" :> success),
             <<>>, IF success THEN 100 ELSE 0, "Case memory stored", "long_term_memory"))

\* the payload _store_memory writes to case_memory_vectors (lines 43-54)
MemoryPayload(query, context, case_id) ==
    [case_id |-> case_id, query |-> query,
     domains |-> Get(context, "domains", <<>>),
     statutes |-> Get(context, "statutes", <<>>),
     cases |-> Get(context, "similar_cases", <<>>),
     explanation |-> Get(context, "explanation", <<>>),
     recommendations |-> Get(context, "recommendations", <<>>),
     source |-> "user_query"]

(***************************************************************************)
(* agents/summarization_agent.py                                           *)
(* unified_summary is [kind, text, parts]: kind "llm" with the generated   *)
(* text, or kind "template" with the parts the template prints.            *)
(***************************************************************************)
Summary(kind, text, parts) == [kind |-> kind, text |-> text, parts |-> parts]

\* SummarizationAgent._collect_agent_outputs; the orchestrator's context has
\* no "query" key
_collect_agent_outputs(context, agent_outputs) ==
    ("query" :> Get(context, "query", <<>>)) @@
    ("normalized_query" :> Get(context, "normalized_query", <<>>)) @@
    ("domains" :> Get(context, "domains", <<>>)) @@
    ("primary_domain" :> Get(context, "primary_domain", "general")) @@
    ("statutes" :> Get(context, "statutes", <<>>)) @@
    ("similar_cases" :> Get(context, "similar_cases", <<>>)) @@
    ("explanation" :> Get(context, "explanation", <<>>)) @@
    ("recommendations" :> Get(context, "recommendations", <<>>)) @@
    ("ethics_check" :> Get(context, "ethics_check", EmptyDict))

\* _build_summarization_prompt slices case_context, outcome and
\* why_this_matters of the first five entries; slicing None raises TypeError
PromptRaises(collected_outputs) ==
    LET cases == Take(collected_outputs["similar_cases"], 5)
        recommendations == Take(collected_outputs["recommendations"], 5)
    IN  \/ \E i \in 1..Len(cases) :
               \/ Get(cases[i], "case_context", <<>>) = NoneText
               \/ Get(cases[i], "outcome", <<>>) = NoneText
        \/ \E i \in 1..Len(recommendations) :
               Get(recommendations[i], "why_this_matters", <<>>) = NoneText

\* SummarizationAgent._call_llm_for_summarization: the text, <<>> for None
_call_llm_for_summarization(groq, reply) ==
    LET call == generate_response(reply)
        result == call.value
    IN  IF groq = "None" THEN <<>>
        ELSE IF call.raised THEN <<>>
        ELSE IF ~IsBlank(result) THEN Strip(result.text)
        ELSE <<>>

TEMPLATE_DISCLAIMER ==
    "This information is for educational purposes only. It is not legal advice. Consult a qualified lawyer for specific legal matters."

\* SummarizationAgent._fallback_summarization: the parts of the template
_fallback_summarization(collected_outputs) ==
    LET statutes == collected_outputs["statutes"]
        cases == collected_outputs["similar_cases"]
        recommendations == collected_outputs["recommendations"]
        first_statutes == Take(statutes, 3)
        first_cases == Take(cases, 3)
        first_recommendations == Take(recommendations, 3)
    IN  Summary("template", <<>>,
            [query |-> collected_outputs["query"],
             domains |-> collected_outputs["domains"],
             statutes_count |-> Len(statutes),
             cases_count |-> Len(cases),
             recommendations_count |-> Len(recommendations),
             explanation |-> collected_outputs["explanation"],
             key_statutes |->
                 [i \in 1..Len(first_statutes) |->
                     Get(first_statutes[i], "title", <<"U","n","k","n","o","w","n">>)],
             similar_cases |->
                 [i \in 1..Len(first_cases) |->
                     Get(first_cases[i], "case_name", <<"U","n","k","n","o","w","n">>)],
             recommended_actions |->
                 [i \in 1..Len(first_recommendations) |->
                     Get(first_recommendations[i], "action", <<"U","n","k","n","o","w","n"," ",
                                                               "A","c","t","i","o","n">>)],
             disclaimer |-> TEMPLATE_DISCLAIMER])

DEFAULT_STANDARD_DISCLAIMER ==
    "This information is for educational purposes only. It is not a substitute for professional legal advice."

\* SummarizationAgent._format_final_response
_format_final_response(collected_outputs, unified_summary) ==
    ("unified_summary" :> unified_summary) @@
    ("query" :> collected_outputs["query"]) @@
    ("normalized_query" :> collected_outputs["normalized_query"]) @@
    ("legal_domain" :> collected_outputs["primary_domain"]) @@
    ("domains" :> collected_outputs["domains"]) @@
    ("statutes" :> collected_outputs["statutes"]) @@
    ("similar_cases" :> collected_outputs["similar_cases"]) @@
    ("recommendations" :> collected_outputs["recommendations"]) @@
    ("ethics_check" :> collected_outputs["ethics_check"]) @@
    ("retrieval_evidence" :>
        [statutes_count |-> Len(collected_outputs["statutes"]),
         cases_count |-> Len(collected_outputs["similar_cases"]),
         recommendations_count |-> Len(collected_outputs["recommendations"])]) @@
    ("disclaimers" :>
        [safety |-> Get(collected_outputs["ethics_check"], "safety_disclaimer", ""),
         standard |-> Get(collected_outputs["ethics_check"], "standard_disclaimer",
                          DEFAULT_STANDARD_DISCLAIMER)])

Min(a, b) == IF a < b THEN a ELSE b

\* _calculate_confidence adding 0.05 per statute and per case without the cap
_calculate_confidence_uncapped(collected_outputs) ==
    LET statutes_count == Len(collected_outputs["statutes"])
        cases_count == Len(collected_outputs["similar_cases"])
        recommendations_count == Len(collected_outputs["recommendations"])
        has_explanation == collected_outputs["explanation"] # <<>>
        has_domains == collected_outputs["domains"] # <<>>
        confidence ==
            30 + (IF has_domains THEN 10 ELSE 0)
               + statutes_count * 5
               + cases_count * 5
               + (IF recommendations_count > 0 THEN Min(10, recommendations_count * 2)
                  ELSE 0)
               + (IF has_explanation THEN 10 ELSE 0)
    IN  Min(confidence, 100)

\* SummarizationAgent._calculate_confidence
_calculate_confidence(collected_outputs) ==
    LET statutes_count == Len(collected_outputs["statutes"])
        cases_count == Len(collected_outputs["similar_cases"])
        recommendations_count == Len(collected_outputs["recommendations"])
        has_explanation == collected_outputs["explanation"] # <<>>
        has_domains == collected_outputs["domains"] # <<>>
        confidence ==
            30 + (IF has_domains THEN 10 ELSE 0)
               + (IF statutes_count > 0 THEN Min(20, statutes_count * 5) ELSE 0)
               + (IF cases_count > 0 THEN Min(20, cases_count * 5) ELSE 0)
               + (IF recommendations_count > 0 THEN Min(10, recommendations_count * 2)
                  ELSE 0)
               + (IF has_explanation THEN 10 ELSE 0)
    IN  Min(confidence, 100)

\* SummarizationAgent.process
SummarizationAgent_process(query, context, groq, reply) ==
    IF ~validate_input(query)
    THEN Return(NoneOutput("Invalid input: empty query", "summarization"))
    ELSE LET agent_outputs == Get(context, "agent_outputs", EmptyDict)
             collected_outputs == _collect_agent_outputs(context, agent_outputs)
             generated == _call_llm_for_summarization(groq, reply)
             unified_summary ==
                 IF generated # <<>> THEN Summary("llm", generated, EmptyDict)
                 ELSE _fallback_summarization(collected_outputs)
         IN  IF PromptRaises(collected_outputs)
             THEN Return(AgentOutput(
                      ("unified_summary" :>
                          Summary("error", <<>>, EmptyDict)) @@
                      ("query" :> query) @@
                      ("error" :> "'NoneType' object is not subscriptable"),
                      <<>>, 0, "Error occurred", "summarization"))
             ELSE Return(AgentOutput(
                      _format_final_response(collected_outputs, unified_summary),
                      <<>>, _calculate_confidence(collected_outputs),
                      "Successfully synthesized unified response from all agent outputs",
                      "summarization"))

(***************************************************************************)
(* agents/router_agent.py                                                  *)
(***************************************************************************)
\* the query types in the order of the keys of classification_keywords
QUERY_TYPES == <<"legal_info", "case_search", "civic_action", "web_search", "simple_qa">>

\* RouterAgent.classification_keywords
classification_keywords ==
    ("legal_info" :>
        << <<"l","a","w">>, <<"a","c","t">>, <<"s","e","c","t","i","o","n">>, <<"a","r","t","i","c","l","e">>, <<"r","i","g","h","t","s">>, <<"l","e","g","a","l">>,
           <<"c","o","n","s","t","i","t","u","t","i","o","n">>, <<"i","p","c">>, <<"c","r","p","c">> >>) @@
    ("case_search" :>
        << <<"c","a","s","e">>, <<"j","u","d","g","m","e","n","t">>, <<"v","e","r","d","i","c","t">>, <<"c","o","u","r","t">>, <<"p","r","e","c","e","d","e","n",
                                                                 "t">>,
           <<"s","i","m","i","l","a","r">>, <<"r","u","l","i","n","g">> >>) @@
    ("civic_action" :>
        << <<"f","i","l","e">>, <<"c","o","m","p","l","a","i","n","t">>, <<"r","t","i">>, <<"a","p","p","l","i","c","a","t","i","o","n">>, <<"h","o","w"," ","t","o">>,
           <<"p","r","o","c","e","d","u","r","e">>, <<"s","t","e","p","s">>, <<"p","r","o","c","e","s","s">>, <<"l","o","d","g","e">>, <<"r","e","g","i","s","t","e","r">> >>) @@
    ("web_search" :>
        << <<"l","a","t","e","s","t">>, <<"r","e","c","e","n","t">>, <<"c","u","r","r","e","n","t">>, <<"n","e","w","s">>, <<"u","p","d","a","t","e">>,
           <<"2","0","2","4">>, <<"2","0","2","5">>, <<"2","0","2","6">> >>) @@
    ("simple_qa" :>
        << <<"w","h","a","t"," ","i","s">>, <<"d","e","f","i","n","e">>, <<"m","e","a","n","i","n","g">>, <<"e","x","p","l","a","i","n">>, <<"w","h","o"," ","i","s">> >>)

\* RouterAgent._keyword_classify: max() keeps the first of the types that
\* score highest
Router_keyword_classify(query) ==
    LET score(qtype) ==
            Cardinality({i \in 1..Len(classification_keywords[qtype]) :
                            Contains(query, classification_keywords[qtype][i])})
        best == CHOOSE i \in 1..Len(QUERY_TYPES) :
                    /\ \A j \in 1..Len(QUERY_TYPES) :
                           score(QUERY_TYPES[j]) <= score(QUERY_TYPES[i])
                    /\ \A j \in 1..(i - 1) :
                           score(QUERY_TYPES[j]) < score(QUERY_TYPES[i])
    IN  IF score(QUERY_TYPES[best]) = 0 THEN "legal_info" ELSE QUERY_TYPES[best]

\* RouterAgent._llm_classify: the dict it returns
Router_llm_classify(query, groq, reply) ==
    LET failure == [success |-> FALSE, query_type |-> ""]
        call == generate_response(reply)
        result == call.value
        parsed == json_loads(result)
    IN  IF groq = "None" THEN failure
        ELSE IF call.raised THEN failure
        ELSE IF IsBlank(result) THEN failure
        ELSE IF ~parsed.ok THEN failure
        ELSE IF parsed.value.kind = "dict"
                /\ "query_type" \in DOMAIN parsed.value.fields
                /\ \E i \in 1..Len(QUERY_TYPES) :
                       QUERY_TYPES[i] = parsed.value.fields["query_type"]
             THEN [success |-> TRUE, query_type |-> parsed.value.fields["query_type"]]
             ELSE failure

\* _get_pipeline with the civic_action pipeline listing recommendation first
_get_pipeline_reordered(query_type) ==
    LET pipelines ==
            ("legal_info" :>
                [agents |-> <<"intake", "classification", "knowledge_retrieval",
                              "reasoning", "summarization">>,
                 skip |-> <<"case_similarity", "web_search", "recommendation">>]) @@
            ("case_search" :>
                [agents |-> <<"intake", "classification", "case_similarity",
                              "reasoning", "summarization">>,
                 skip |-> <<"knowledge_retrieval", "web_search", "recommendation">>]) @@
            ("civic_action" :>
                [agents |-> <<"intake", "classification", "recommendation",
                              "knowledge_retrieval", "summarization">>,
                 skip |-> <<"case_similarity", "web_search", "reasoning">>]) @@
            ("web_search" :>
                [agents |-> <<"intake", "classification", "web_search",
                              "reasoning", "summarization">>,
                 skip |-> <<"knowledge_retrieval", "case_similarity",
                            "recommendation">>]) @@
            ("simple_qa" :>
                [agents |-> <<"intake", "reasoning", "summarization">>,
                 skip |-> <<"classification", "knowledge_retrieval", "case_similarity",
                            "web_search", "recommendation">>])
    IN  Get(pipelines, query_type, pipelines["legal_info"])

\* RouterAgent._get_pipeline
_get_pipeline(query_type) ==
    LET pipelines ==
            ("legal_info" :>
                [agents |-> <<"intake", "classification", "knowledge_retrieval",
                              "reasoning", "summarization">>,
                 skip |-> <<"case_similarity", "web_search", "recommendation">>]) @@
            ("case_search" :>
                [agents |-> <<"intake", "classification", "case_similarity",
                              "reasoning", "summarization">>,
                 skip |-> <<"knowledge_retrieval", "web_search", "recommendation">>]) @@
            ("civic_action" :>
                [agents |-> <<"intake", "classification", "knowledge_retrieval",
                              "recommendation", "summarization">>,
                 skip |-> <<"case_similarity", "web_search", "reasoning">>]) @@
            ("web_search" :>
                [agents |-> <<"intake", "classification", "web_search",
                              "reasoning", "summarization">>,
                 skip |-> <<"knowledge_retrieval", "case_similarity",
                            "recommendation">>]) @@
            ("simple_qa" :>
                [agents |-> <<"intake", "reasoning", "summarization">>,
                 skip |-> <<"classification", "knowledge_retrieval", "case_similarity",
                            "web_search", "recommendation">>])
    IN  Get(pipelines, query_type, pipelines["legal_info"])

\* RouterAgent.process
RouterAgent_process(query, groq, reply) ==
    IF ~validate_input(query)
    THEN Return(AgentOutput(
             ("query_type" :> "simple_qa") @@ ("agents" :> <<"llm">>),
             <<>>, 50, "Invalid input, defaulting to simple QA", "router"))
    ELSE LET llm_result == Router_llm_classify(query, groq, reply)
             query_type ==
                 IF llm_result.success THEN llm_result.query_type
                 ELSE Router_keyword_classify(Strip(Lower(query)))
             pipeline == _get_pipeline(query_type)
         IN  Return(AgentOutput(
                 ("query_type" :> query_type) @@
                 ("agents" :> pipeline.agents) @@
                 ("skip_agents" :> pipeline.skip),
                 <<>>, IF llm_result.success THEN 90 ELSE 70,
                 IF llm_result.success THEN "llm" ELSE "keyword", "router"))

\* what the provider answers the router
RouterReplies ==
    { ProviderError } \cup
    { ProviderOk(JsonDict(("query_type" :> t) @@ ("reason" :> "brief reason"))) :
        t \in {"legal_info", "case_search", "civic_action", "web_search", "simple_qa",
               "other"} }

(***************************************************************************)
(* agents/web_search_agent.py                                              *)
(***************************************************************************)
\* WebSearchAgent.process; tavily: "None" when get_tavily_search() gives no
\* usable client; web_results: what tavily.search returns
WebSearchAgent_process(query, tavily, web_results) ==
    IF ~validate_input(query)
    THEN Return(NoneOutput("Invalid input", "web_search"))
    ELSE IF tavily = "None"
         THEN Return(AgentOutput(("web_results" :> <<>>) @@ ("count" :> 0),
                                 <<>>, 0, "Web search not available", "web_search"))
         ELSE LET formatted_results ==
                      [i \in 1..Len(web_results) |->
                          ("title" :> Get(web_results[i], "title", <<>>)) @@
                          ("url" :> Get(web_results[i], "url", <<>>)) @@
                          ("content" :> Get(web_results[i], "content", <<>>)) @@
                          ("score" :> Get(web_results[i], "score", 0))]
              IN  Return(AgentOutput(
                      ("web_results" :> formatted_results) @@
                      ("count" :> Len(formatted_results)),
                      <<>>, Min(Len(formatted_results) * 20, 100),
                      "Retrieved web search results from reliable sources",
                      "web_search"))

\* what tavily.search returns
WebResults ==
    { <<>>,
      << ("title" :> <<"R","T","I"," ","A","c","t">>) @@ ("url" :> <<"r","t","i",".","g","o","v",".","i","n">>) @@ ("score" :> 90),
         ("title" :> <<"C","I","C">>) >> }

(***************************************************************************)
(* The environment: queries and what the collaborators answer.             *)
(***************************************************************************)
Queries ==
    { <<>>,
      <<" "," ">>,
      <<" ","F","i","l","e"," "," ","R","T","I","?">> }

\* whether an agent's process() raises an exception that its own code does
\* not catch, for a run in which errs have been recorded
Crashes(errs) ==
    IF Cardinality({i \in DOMAIN errs : errs[i].error = "crash"}) < MaxCrashes
    THEN BOOLEAN ELSE {FALSE}

\* str(uuid.uuid4())
CaseIds == {"uuid-1"}

\* the points of each collection with their score against the query, best first
TaxonomyPool ==
    << Hit("t1", 60, ("domain" :> "civic_rights")),
       Hit("t2", 45, ("domain" :> "administrative_law")),
       Hit("t3", 30, ("domain" :> "consumer_law")) >>

CasePool ==
    << Hit("c1", 90,
           ("case_name" :> <<"C","B","S","E"," ","v","."," ","A","d","i","t","y","a">>) @@ ("year" :> "2011") @@
           ("citation" :> <<"(","2","0","1","1",")"," ","8"," ","S","C","C"," ","4","9","7">>) @@
           ("context" :> <<"A","c","c","e","s","s"," ","t","o"," ","a","n","s","w","e","r"," ",
                           "s","h","e","e","t","s"," ","u","n","d","e","r"," ","R","T","I">>) @@
           ("outcome" :> <<"D","i","s","c","l","o","s","u","r","e"," ","a","l","l","o","w","e","d">>) @@
           ("domain" :> "civic_rights")),
       Hit("c2", 70,
           ("case_name" :> <<"N","a","m","i","t"," ","v","."," ","U","n","i","o","n">>) @@
           ("summary" :> <<"A","p","p","l","i","c","a","n","t"," ","s","o","u","g","h","t"," ",
                           "f","i","l","e"," ","n","o","t","i","n","g","s">>) @@
           ("domain" :> "administrative_law")),
       Hit("c3", 60,
           ("case_name" :> <<"G","i","r","i","s","h"," ","v","."," ","C","I","C">>) @@
           ("domain" :> "civic_rights")) >>

ProcessPool ==
    << Hit("p1", 80,
           ("action" :> <<"F","i","l","e"," ","R","T","I"," ","a","p","p","l","i","c","a","t","i",
                          "o","n">>) @@
           ("authority" :> <<"P","u","b","l","i","c"," ","I","n","f","o","r","m","a","t","i","o",
                             "n"," ","O","f","f","i","c","e","r">>) @@
           ("domain" :> "civic_rights")),
       Hit("p2", 55,
           ("action" :> <<" ","f","i","l","e"," ","r","t","i"," ","a","p","p","l","i","c","a","t",
                          "i","o","n"," ">>) @@
           ("importance" :> <<"Y","o","u"," ","s","h","o","u","l","d"," ","s","u","e"," ","t","h",
                              "e","m">>) @@
           ("domain" :> "civic_rights")),
       Hit("p3", 50,
           ("action" :> <<"F","i","l","e"," ","f","i","r","s","t"," ","a","p","p","e","a","l">>) @@
           ("timeline" :> <<"3","0"," ","d","a","y","s">>) @@
           ("domain" :> "civic_rights")) >>

ClassifyReplies ==
    { ProviderError,
      ProviderOk(JsonList(<<"civic_rights", "tenant_law">>)) }

CaseReplies ==
    { ProviderError,
      ProviderOk(JsonList(<<
          [is_dict |-> TRUE,
           fields |-> ("case_context" :> <<"E","x","a","m"," ","r","e","c","o","r","d","s">>) @@
                      ("what_happened" :> <<"S","t","u","d","e","n","t"," ","a","p","p","l","i",
                                            "e","d">>) @@
                      ("outcome" :> NoneText) @@
                      ("relevance_to_query" :> <<"S","a","m","e"," ","s","t","a","t","u","t","e">>)] >>)) }

ReasoningReplies ==
    { ProviderError,
      ProviderOk(Prose(<<"Y","o","u"," ","s","h","o","u","l","d"," ","S","U","E"," ","t","h","e",
                         "m",";"," ","i","t"," ","i","s"," ","a"," ","G","u","a","r","a","n","t",
                         "e","e","d"," ","W","i","n","."," ">>)) }

RecommendationReplies ==
    { ProviderError,
      ProviderOk(JsonList(<<
          [is_dict |-> TRUE,
           fields |-> ("action" :> <<"F","i","l","e"," ","a"," ","l","a","w","s","u","i","t">>) @@
                      ("why_this_matters" :> <<"I","t"," ","h","e","l","p","s">>) @@
                      ("next_step" :> <<"G","o"," ","t","o"," ","c","o","u","r","t">>) @@
                      ("is_legal_advice" :> TRUE)],
          [is_dict |-> FALSE, fields |-> EmptyDict] >>)) }

EthicsReplies ==
    { ProviderError,
      ProviderOk(JsonDict(("is_safe" :> TRUE) @@ ("issues" :> <<>>))),
      ProviderOk(JsonDict(("is_safe" :> FALSE) @@
                          ("issues" :> << <<"S","u","g","g","e","s","t","s"," ","l","i","t","i",
                                            "g","a","t","i","o","n">> >>))) }

SummarizationReplies ==
    { ProviderError,
      ProviderOk(Prose(<<>>)),
      ProviderOk(Prose(<<" ","T","h","e"," ","R","T","I"," ","A","c","t"," ","l","e","t","s"," ",
                         "c","i","t","i","z","e","n","s"," ","r","e","q","u","e","s","t"," ","r",
                         "e","c","o","r","d","s","."," ">>)) }

(***************************************************************************)
(* RetrievalGateway: database/qdrant_client.py and database/qdrant_db.py   *)
(***************************************************************************)
\* the points a collection holds
Collection(collection_name) ==
    Take(CASE collection_name = "legal_taxonomy_vectors" -> TaxonomyPool
           [] collection_name = "case_law_vectors" -> CasePool
           [] collection_name = "civic_process_vectors" -> ProcessPool
           [] OTHER -> <<>>,
         MaxPoints)

\* QdrantManager.search whose except branch hands back the points it knows of
search_despite_outage(collection_name, limit, score_threshold, filter_dict, reachable) ==
    LET Matches(hit) ==
            /\ hit.score >= score_threshold
            /\ \A key \in DOMAIN filter_dict :
                   Get(hit.payload, key, "") = filter_dict[key]
    IN  Take(SelectSeq(Collection(collection_name), Matches), limit)

\* QdrantManager.search; filter_dict is EmptyDict for None; reachable: the
\* query_points call answered
search(collection_name, limit, score_threshold, filter_dict, reachable) ==
    LET Matches(hit) ==
            /\ hit.score >= score_threshold
            /\ \A key \in DOMAIN filter_dict :
                   Get(hit.payload, key, "") = filter_dict[key]
    IN  IF ~reachable THEN <<>>
        ELSE Take(SelectSeq(Collection(collection_name), Matches), limit)

\* a search that is never given a filter
DomainFilter_none(context) == EmptyDict

\* filter_dict of the case, statute and process searches
DomainFilter(context) ==
    LET primary_domain == Get(context, "primary_domain", "general")
    IN  IF primary_domain # "general" THEN ("domain" :> primary_domain) ELSE EmptyDict

(***************************************************************************)
(* core/simple_pipeline.py                                                 *)
(***************************************************************************)
\* _analyze_query_intent
_analyze_query_intent(query) ==
    LET query_lower == Lower(query)
        any(keywords) == \E i \in 1..Len(keywords) : Contains(query_lower, keywords[i])
        intent ==
            IF any(<< <<"h","o","w"," ","t","o">>, <<"p","r","o","c","e","s","s">>, <<"s","t","e","p","s">>, <<"p","r","o","c","e","d","u","r","e">>,
                      <<"f","i","l","e">>, <<"a","p","p","l","y">> >>)
            THEN "procedural"
            ELSE IF any(<< <<"w","h","a","t"," ","i","s">>, <<"d","e","f","i","n","e">>, <<"m","e","a","n","i","n","g">>, <<"c","o","n","c","e","p","t">>,
                           <<"r","i","g","h","t","s">>, <<"l","a","w">> >>)
                 THEN "informational"
                 ELSE "general"
        needs_sources ==
            ~(Len(Split(query)) < 3
              /\ any(<< <<"h","i">>, <<"h","e","l","l","o">>, <<"t","h","a","n","k","s">>, <<"b","y","e">> >>))
    IN  [intent |-> intent, needs_sources |-> needs_sources]

\* build_adaptive_context; embOk: get_embedding answered; tavily is "None" when
\* get_tavily_search() has no client; web_hits: what search_legal_info returns
build_adaptive_context(query, embOk, reachable, tavily, web_hits) ==
    LET analysis == _analyze_query_intent(query)
        collections_to_try == << "multimodal_legal_data", "legal_taxonomy_vectors",
                                 "statutes_vectors", "unified_legal_vectors" >>
        Answers(coll) == search(coll, 5, 20, EmptyDict, reachable) # <<>>
        found == SelectSeq(collections_to_try, Answers)
        results == IF ~embOk \/ found = <<>> THEN <<>>
                   ELSE search(found[1], 5, 20, EmptyDict, reachable)
        Doc(r) ==
            LET payload == r.payload
            IN  ("title" :> Get(payload, "title", Get(payload, "name", <<"D","o","c","u","m","e",
                                                                         "n","t">>))) @@
                ("content" :> Slice(Get(payload, "content",
                                        Get(payload, "chunk_text",
                                            Get(payload, "summary", <<>>))), 600)) @@
                ("source" :> Get(payload, "source",
                                 Get(payload, "source_name", <<"I","n","t","e","r","n","a","l",
                                                               " ","D","B">>))) @@
                ("score" :> r.score)
        Web(w) ==
            IF Get(w, "is_answer", FALSE)
            THEN ("title" :> <<"W","e","b"," ","S","u","m","m","a","r","y">>) @@
                 ("content" :> Slice(Get(w, "content", <<>>), 500)) @@
                 ("url" :> NoneText)
            ELSE ("title" :> Get(w, "title", <<"W","e","b"," ","S","o","u","r","c","e">>)) @@
                 ("content" :> Slice(Get(w, "content", <<>>), 500)) @@
                 ("url" :> Get(w, "url", NoneText))
        retrieved_docs == [i \in 1..Len(results) |-> Doc(results[i])]
        web_results == IF tavily = "None" THEN <<>>
                       ELSE [i \in 1..Len(web_hits) |-> Web(web_hits[i])]
        context_source ==
            IF retrieved_docs # <<>> /\ web_results # <<>> THEN "hybrid"
            ELSE IF retrieved_docs # <<>> THEN "database"
            ELSE IF web_results # <<>> THEN "web"
            ELSE "general"
        context == ("query" :> query) @@ ("retrieved_docs" :> <<>>) @@
                   ("web_results" :> <<>>) @@ ("context_source" :> "general") @@
                   ("intent" :> analysis.intent)
    IN  IF ~analysis.needs_sources THEN context
        ELSE Put(Put(Put(context, "retrieved_docs", retrieved_docs),
                     "web_results", web_results),
                 "context_source", context_source)

FALLBACK_DISCLAIMER ==
    << <<"#","#","#"," ","D","i","s","c","l","a","i","m","e","r">>,
       <<"T","h","i","s"," ","i","s"," ","g","e","n","e","r","a","l"," ","i","n","f","o","r","m",
         "a","t","i","o","n"," ","o","n","l","y",","," ","n","o","t"," ","l","e","g","a","l"," ",
         "a","d","v","i","c","e","."," ","P","l","e","a","s","e"," ","c","o","n","s","u","l","t",
         " ","a"," ","q","u","a","l","i","f","i","e","d"," ","l","a","w","y","e","r"," ","f","o",
         "r"," ","s","p","e","c","i","f","i","c"," ","l","e","g","a","l"," ","m","a","t","t","e",
         "r","s",".">> >>

\* _fallback_response; context["retrieval_status"] is a KeyError when the
\* context has no such key. generated_at, the time of the call, is left out
_fallback_response(query, context) ==
    LET docs == Take(context["retrieved_docs"], 3)
        webs == Take(context["web_results"], 3)
        DocLine(doc) == <<"-"," ","*","*">> \o Get(doc, "title", <<"D","o","c","u","m","e","n","t">>) \o <<"*","*",":"," ">> \o
                        Slice(Get(doc, "content", <<>>), 200) \o <<".",".",".">>
        WebLine(result) == <<"-"," ">> \o Get(result, "title", <<"S","o","u","r","c","e">>) \o <<":"," ">> \o
                           Slice(Get(result, "content", <<>>), 200) \o <<".",".",".">>
        response_parts ==
            << <<"#","#","#"," ","E","x","p","l","a","n","a","t","i","o","n">>,
               <<"I","'","m"," ","u","n","a","b","l","e"," ","t","o"," ","g","e","n","e","r","a",
                 "t","e"," ","a"," ","f","u","l","l"," ","r","e","s","p","o","n","s","e"," ","a",
                 "t"," ","t","h","e"," ","m","o","m","e","n","t",","," ","b","u","t"," ","h","e",
                 "r","e","'","s"," ","w","h","a","t"," ","I"," ","f","o","u","n","d",":">>,
               <<>> >>
            \o (IF docs # <<>>
                THEN << <<"#","#","#"," ","R","e","t","r","i","e","v","e","d"," ","I","n","f","o",
                          "r","m","a","t","i","o","n">> >>
                     \o [i \in 1..Len(docs) |-> DocLine(docs[i])] \o << <<>> >>
                ELSE <<>>)
            \o (IF webs # <<>>
                THEN << <<"#","#","#"," ","W","e","b"," ","I","n","f","o","r","m","a","t","i","o",
                          "n">> >>
                     \o [i \in 1..Len(webs) |-> WebLine(webs[i])] \o << <<>> >>
                ELSE <<>>)
            \o FALLBACK_DISCLAIMER
    IN  IF "retrieval_status" \notin DOMAIN context
        THEN Raise("'retrieval_status'")
        ELSE Return(("case_id" :> CHOOSE id \in CaseIds : TRUE) @@
                    ("query" :> query) @@
                    ("response" :> Join(<< "\n" >>, response_parts)) @@
                    ("sources" :> (("database_docs" :> Len(context["retrieved_docs"])) @@
                                   ("web_results" :> Len(context["web_results"])) @@
                                   ("retrieval_status" :> context["retrieval_status"]))) @@
                    ("retrieved_docs" :> docs) @@
                    ("web_results" :> webs) @@
                    ("fallback" :> TRUE))

PIPELINE_ERROR_TEXT ==
    <<"I"," ","e","n","c","o","u","n","t","e","r","e","d"," ","a","n"," ","e","r","r","o","r"," ",
      "p","r","o","c","e","s","s","i","n","g"," ","y","o","u","r"," ","r","e","q","u","e","s","t",
      ".">>

\* query of simple_pipeline: groq is "None" when groq_llm is None; reply is
\* what the provider answers. _init_memory_collection, _get_memory_context and
\* _store_interaction catch their own exceptions and leave the record alone.
\* generated_at, the time of the call, is left out
simple_pipeline_query(user_query, groq, reply, embOk, reachable, tavily, web_hits) ==
    LET context == build_adaptive_context(user_query, embOk, reachable, tavily, web_hits)
        case_id == CHOOSE id \in CaseIds : TRUE
        call == IF groq = "None"
                THEN _fallback_response(user_query, context)
                ELSE Return(("case_id" :> case_id) @@
                            ("query" :> user_query) @@
                            ("response" :> generate_response(reply).value.text) @@
                            ("sources" :>
                                (("database_docs" :> Len(context["retrieved_docs"])) @@
                                 ("web_results" :> Len(context["web_results"])) @@
                                 ("source_type" :> context["context_source"]) @@
                                 ("retrieval_status" :>
                                     IF context["retrieved_docs"] # <<>>
                                     THEN "hit" ELSE "miss"))) @@
                            ("retrieved_docs" :> Take(context["retrieved_docs"], 3)) @@
                            ("web_results" :> Take(context["web_results"], 3)))
    IN  IF call.raised
        THEN ("case_id" :> case_id) @@ ("query" :> user_query) @@
             ("response" :> PIPELINE_ERROR_TEXT) @@ ("error" :> call.error)
        ELSE call.value

(***************************************************************************)
(* core/orchestrator.py                                                    *)
(***************************************************************************)
VARIABLES
    query,            \* AgentState["query"]
    context,          \* AgentState["context"]
    agent_outputs,    \* AgentState["agent_outputs"]
    final_result,     \* AgentState["final_result"]
    errors,           \* AgentState["errors"]
    pc,               \* the graph node to run next, END, or done
    entry,            \* the method the caller invoked
    groq_llm,         \* llm.groq_client.groq_llm: "None" or "client"
    response,         \* what the caller got: [status, value]
    trace,            \* one record per node run: step, fault, LLM call
    case_memory_vectors   \* the payloads the memory agent has stored

vars == <<query, context, agent_outputs, final_result, errors, pc, entry,
          groq_llm, response, trace, case_memory_vectors>>

\* the nodes in the order of the edges of _build_graph
STEPS ==
    <<"intake", "classification", "knowledge_retrieval", "case_similarity",
      "reasoning", "recommendation", "ethics", "memory", "summarization">>

\* _build_graph with the edge out of reasoning drawn to ethics
NextNodeSkipping(node) ==
    CASE node = "intake" -> "classification"
      [] node = "classification" -> "knowledge_retrieval"
      [] node = "knowledge_retrieval" -> "case_similarity"
      [] node = "case_similarity" -> "reasoning"
      [] node = "reasoning" -> "ethics"
      [] node = "recommendation" -> "ethics"
      [] node = "ethics" -> "memory"
      [] node = "memory" -> "summarization"
      [] node = "summarization" -> "END"

\* NyayaOrchestrator._build_graph: the node an edge leads to
NextNode(node) ==
    CASE node = "intake" -> "classification"
      [] node = "classification" -> "knowledge_retrieval"
      [] node = "knowledge_retrieval" -> "case_similarity"
      [] node = "case_similarity" -> "reasoning"
      [] node = "reasoning" -> "recommendation"
      [] node = "recommendation" -> "ethics"
      [] node = "ethics" -> "memory"
      [] node = "memory" -> "summarization"
      [] node = "summarization" -> "END"

\* the entry of trace for a generate_response call that did not happen
NoLlmCall == [called |-> FALSE, reply |-> ProviderError, raised |-> FALSE,
              returned |-> Prose(<<>>)]

\* the entry of trace for a generate_response call
LlmCall(reply) ==
    [called |-> TRUE, reply |-> reply, raised |-> generate_response(reply).raised,
     returned |-> generate_response(reply).value]

TraceEntry(step, faulted, llm) == [step |-> step, faulted |-> faulted, llm |-> llm]

\* f"{prefix}: {str(e)}"
NodeError(prefix, e) == [prefix |-> prefix, error |-> e]

\* what output.result.get(...) raises when result is None
NONE_GET == "'NoneType' object has no attribute 'get'"

\* the call of agent.process() inside a node
Process(crash, call) == IF crash THEN Raise("crash") ELSE call

\* the body of _knowledge_node and of _case_node on a shared state st =
\* [context, agent_outputs, errors]: with the call's result the node writes
\* context[key] and agent_outputs[name], with a fault it appends to errors
RetrievalNodeWrites(st, prefix, key, name, call) ==
    IF call.raised \/ ~call.value.has_result
    THEN [st EXCEPT !.errors =
              Append(@, NodeError(prefix, IF call.raised THEN call.error ELSE NONE_GET))]
    ELSE [st EXCEPT !.context = Put(@, key, Get(call.value.result, key, <<>>)),
                    !.agent_outputs = Put(@, name, call.value)]

Init ==
    /\ query \in Queries
    /\ context = ("user_id" :> "anonymous")
    /\ agent_outputs = EmptyDict
    /\ final_result = EmptyDict
    /\ errors = <<>>
    /\ pc = "intake"
    /\ entry \in {"process_query", "process_query_structured"}
    /\ groq_llm \in {"None", "client"}
    /\ response = [status |-> "pending", value |-> EmptyDict]
    /\ trace = <<>>
    /\ case_memory_vectors = <<>>

\* NyayaOrchestrator._intake_node
_intake_node ==
    /\ pc = "intake"
    /\ \E crash \in Crashes(errors), embOk \in BOOLEAN :
        \E call \in {
                Process(crash, IntakeAgent_process(query, embOk)) } :
        LET output == call.value
            faulted == call.raised \/ ~output.has_result
        IN  /\ IF faulted
               THEN /\ errors' = Append(errors,
                          NodeError("Intake error",
                                    IF call.raised THEN call.error ELSE NONE_GET))
                    /\ UNCHANGED <<context, agent_outputs>>
               ELSE /\ context' =
                          Put(Put(context, "normalized_query",
                                  Get(output.result, "normalized_query", NoneText)),
                              "embedding", Get(output.result, "embedding", "None"))
                    /\ agent_outputs' = Put(agent_outputs, "intake", output)
                    /\ UNCHANGED errors
            /\ trace' = Append(trace, TraceEntry("intake", faulted, NoLlmCall))
    /\ pc' = NextNode("intake")
    /\ UNCHANGED <<query, final_result, entry, groq_llm, response, case_memory_vectors>>

\* NyayaOrchestrator._classification_node
_classification_node ==
    /\ pc = "classification"
    /\ \E crash \in Crashes(errors), reply \in ClassifyReplies, embOk \in BOOLEAN,
          reachable \in BOOLEAN :
        LET searched == search("legal_taxonomy_vectors", 3, 40, EmptyDict, reachable)
        IN  \E call \in {
                Process(crash,
                        ClassificationAgent_process(query, context, groq_llm, reply,
                                                    embOk, searched)) } :
        LET output == call.value
            faulted == call.raised \/ ~output.has_result
            llm == IF ~crash /\ validate_input(query) /\ groq_llm # "None"
                   THEN LlmCall(reply) ELSE NoLlmCall
        IN  /\ IF faulted
               THEN /\ errors' = Append(errors,
                          NodeError("Classification error",
                                    IF call.raised THEN call.error ELSE NONE_GET))
                    /\ UNCHANGED <<context, agent_outputs>>
               ELSE /\ context' =
                          Put(Put(context, "domains", Get(output.result, "domains", <<>>)),
                              "primary_domain",
                              Get(output.result, "primary_domain", "general"))
                    /\ agent_outputs' = Put(agent_outputs, "classification", output)
                    /\ UNCHANGED errors
            /\ trace' = Append(trace, TraceEntry("classification", faulted, llm))
    /\ pc' = NextNode("classification")
    /\ UNCHANGED <<query, final_result, entry, groq_llm, response, case_memory_vectors>>

\* NyayaOrchestrator._knowledge_node
_knowledge_node ==
    /\ pc = "knowledge_retrieval"
    /\ \E crash \in Crashes(errors), embOk \in BOOLEAN, reachable \in BOOLEAN :
        LET searched == search("statutes_vectors", 5, 50, DomainFilter(context), reachable)
        IN  \E call \in {
                Process(crash,
                        KnowledgeRetrievalAgent_process(query, context, embOk, searched)) } :
        LET output == call.value
            faulted == call.raised \/ ~output.has_result
        IN  /\ IF faulted
               THEN /\ errors' = Append(errors,
                          NodeError("Knowledge retrieval error",
                                    IF call.raised THEN call.error ELSE NONE_GET))
                    /\ UNCHANGED <<context, agent_outputs>>
               ELSE /\ context' = Put(context, "statutes",
                                      Get(output.result, "statutes", <<>>))
                    /\ agent_outputs' = Put(agent_outputs, "knowledge", output)
                    /\ UNCHANGED errors
            /\ trace' = Append(trace, TraceEntry("knowledge_retrieval", faulted, NoLlmCall))
    /\ pc' = NextNode("knowledge_retrieval")
    /\ UNCHANGED <<query, final_result, entry, groq_llm, response, case_memory_vectors>>

\* _case_node emptying similar_cases when the step faults
_case_node_clearing ==
    /\ pc = "case_similarity"
    /\ \E crash \in Crashes(errors), reply \in CaseReplies, embOk \in BOOLEAN,
          reachable \in BOOLEAN :
        LET searched == search("case_law_vectors", 5, 50, DomainFilter(context), reachable)
        IN  \E call \in {
                Process(crash,
                        CaseSimilarityAgent_process(query, context, groq_llm, reply,
                                                    embOk, searched)) } :
        LET output == call.value
            faulted == call.raised \/ ~output.has_result
            llm == IF ~crash /\ validate_input(query) /\ groq_llm # "None"
                      /\ (HasEmbedding(context) \/ embOk) /\ searched # <<>>
                   THEN LlmCall(reply) ELSE NoLlmCall
        IN  /\ IF faulted
               THEN /\ errors' = Append(errors,
                          NodeError("Case similarity error",
                                    IF call.raised THEN call.error ELSE NONE_GET))
                    /\ context' = Put(context, "similar_cases", <<>>)
                    /\ UNCHANGED agent_outputs
               ELSE /\ context' = Put(context, "similar_cases",
                                      Get(output.result, "similar_cases", <<>>))
                    /\ agent_outputs' = Put(agent_outputs, "case_similarity", output)
                    /\ UNCHANGED errors
            /\ trace' = Append(trace, TraceEntry("case_similarity", faulted, llm))
    /\ pc' = NextNode("case_similarity")
    /\ UNCHANGED <<query, final_result, entry, groq_llm, response, case_memory_vectors>>

\* NyayaOrchestrator._case_node
_case_node ==
    /\ pc = "case_similarity"
    /\ \E crash \in Crashes(errors), reply \in CaseReplies, embOk \in BOOLEAN,
          reachable \in BOOLEAN :
        LET searched == search("case_law_vectors", 5, 50, DomainFilter(context), reachable)
        IN  \E call \in {
                Process(crash,
                        CaseSimilarityAgent_process(query, context, groq_llm, reply,
                                                    embOk, searched)) } :
        LET output == call.value
            faulted == call.raised \/ ~output.has_result
            llm == IF ~crash /\ validate_input(query) /\ groq_llm # "None"
                      /\ (HasEmbedding(context) \/ embOk) /\ searched # <<>>
                   THEN LlmCall(reply) ELSE NoLlmCall
        IN  /\ IF faulted
               THEN /\ errors' = Append(errors,
                          NodeError("Case similarity error",
                                    IF call.raised THEN call.error ELSE NONE_GET))
                    /\ UNCHANGED <<context, agent_outputs>>
               ELSE /\ context' = Put(context, "similar_cases",
                                      Get(output.result, "similar_cases", <<>>))
                    /\ agent_outputs' = Put(agent_outputs, "case_similarity", output)
                    /\ UNCHANGED errors
            /\ trace' = Append(trace, TraceEntry("case_similarity", faulted, llm))
    /\ pc' = NextNode("case_similarity")
    /\ UNCHANGED <<query, final_result, entry, groq_llm, response, case_memory_vectors>>

\* _reasoning_node keeping the empty explanation it got
NodeFallbackExplanationKept(ctx) == <<>>

\* the explanation _reasoning_node substitutes for an empty one (line 163)
NodeFallbackExplanation(ctx) ==
    <<"B","a","s","e","d"," ","o","n"," ">> \o Str(Len(Get(ctx, "statutes", <<>>))) \o
    <<" ","r","e","t","r","i","e","v","e","d"," ","s","t","a","t","u","t","e","s"," ","a","n","d",
      " ">> \o Str(Len(Get(ctx, "similar_cases", <<>>))) \o
    <<" ","s","i","m","i","l","a","r"," ","c","a","s","e","s",","," ","h","e","r","e"," ","a","r",
      "e"," ","t","h","e"," ","r","e","l","e","v","a","n","t"," ","l","e","g","a","l"," ","p","r",
      "o","v","i","s","i","o","n","s",".">>

\* the explanation _reasoning_node writes when the agent raised (line 171)
NODE_FAULT_EXPLANATION ==
    <<"L","e","g","a","l"," ","p","r","o","v","i","s","i","o","n","s"," ","a","p","p","l","y"," ",
      "t","o"," ","y","o","u","r"," ","q","u","e","r","y","."," ","P","l","e","a","s","e"," ","r",
      "e","v","i","e","w"," ","t","h","e"," ","s","t","a","t","u","t","e","s"," ","a","n","d"," ",
      "c","a","s","e","s"," ","a","b","o","v","e"," ","f","o","r"," ","d","e","t","a","i","l","s",
      ".">>

\* NyayaOrchestrator._reasoning_node
_reasoning_node ==
    /\ pc = "reasoning"
    /\ \E crash \in Crashes(errors), reply \in ReasoningReplies :
        \E call \in {
                Process(crash, ReasoningAgent_process(query, context, groq_llm, reply)) } :
        LET output == call.value
            faulted == call.raised
            got == IF output.has_result /\ DOMAIN output.result # {}
                   THEN Get(output.result, "explanation", <<>>) ELSE <<>>
            explanation ==
                IF got = <<>> \/ Strip(got) = <<>>
                THEN NodeFallbackExplanation(context) ELSE got
            llm == IF ~crash /\ validate_input(query) /\ groq_llm # "None"
                      /\ (Get(context, "statutes", <<>>) # <<>>
                          \/ Get(context, "similar_cases", <<>>) # <<>>)
                   THEN LlmCall(reply) ELSE NoLlmCall
        IN  /\ IF faulted
               THEN /\ errors' = Append(errors, NodeError("Reasoning error", call.error))
                    /\ context' = Put(context, "explanation", NODE_FAULT_EXPLANATION)
                    /\ UNCHANGED agent_outputs
               ELSE /\ context' = Put(context, "explanation", explanation)
                    /\ agent_outputs' = Put(agent_outputs, "reasoning", output)
                    /\ UNCHANGED errors
            /\ trace' = Append(trace, TraceEntry("reasoning", faulted, llm))
    /\ pc' = NextNode("reasoning")
    /\ UNCHANGED <<query, final_result, entry, groq_llm, response, case_memory_vectors>>

\* NyayaOrchestrator._recommendation_node
_recommendation_node ==
    /\ pc = "recommendation"
    /\ \E crash \in Crashes(errors), reply \in RecommendationReplies, embOk \in BOOLEAN,
          reachable \in BOOLEAN :
        LET searched == search("civic_process_vectors", 10, 40, DomainFilter(context),
                               reachable)
        IN  \E call \in {
                Process(crash,
                        RecommendationAgent_process(query, context, groq_llm, reply,
                                                    embOk, searched)) } :
        LET output == call.value
            faulted == call.raised \/ ~output.has_result
            llm == IF ~crash /\ validate_input(query) /\ groq_llm # "None"
                      /\ (HasEmbedding(context) \/ embOk) /\ searched # <<>>
                   THEN LlmCall(reply) ELSE NoLlmCall
        IN  /\ IF faulted
               THEN /\ errors' = Append(errors,
                          NodeError("Recommendation error",
                                    IF call.raised THEN call.error ELSE NONE_GET))
                    /\ UNCHANGED <<context, agent_outputs>>
               ELSE /\ context' = Put(context, "recommendations",
                                      Get(output.result, "recommendations", <<>>))
                    /\ agent_outputs' = Put(agent_outputs, "recommendation", output)
                    /\ UNCHANGED errors
            /\ trace' = Append(trace, TraceEntry("recommendation", faulted, llm))
    /\ pc' = NextNode("recommendation")
    /\ UNCHANGED <<query, final_result, entry, groq_llm, response, case_memory_vectors>>

\* _ethics_node withdrawing the recommendations it checked
_ethics_node_withdrawing ==
    /\ pc = "ethics"
    /\ \E crash \in Crashes(errors), reply \in EthicsReplies :
        \E call \in {
                Process(crash, EthicsAgent_process(query, context, groq_llm, reply)) } :
        LET output == call.value
            faulted == call.raised
            llm == IF ~crash /\ groq_llm # "None" THEN LlmCall(reply) ELSE NoLlmCall
        IN  /\ IF faulted
               THEN /\ errors' = Append(errors, NodeError("Ethics error", call.error))
                    /\ UNCHANGED <<context, agent_outputs>>
               ELSE /\ context' = Put(Put(context, "ethics_check", output.result),
                                      "recommendations", <<>>)
                    /\ agent_outputs' = Put(agent_outputs, "ethics", output)
                    /\ UNCHANGED errors
            /\ trace' = Append(trace, TraceEntry("ethics", faulted, llm))
    /\ pc' = NextNode("ethics")
    /\ UNCHANGED <<query, final_result, entry, groq_llm, response, case_memory_vectors>>

\* NyayaOrchestrator._ethics_node
_ethics_node ==
    /\ pc = "ethics"
    /\ \E crash \in Crashes(errors), reply \in EthicsReplies :
        \E call \in {
                Process(crash, EthicsAgent_process(query, context, groq_llm, reply)) } :
        LET output == call.value
            faulted == call.raised
            llm == IF ~crash /\ groq_llm # "None" THEN LlmCall(reply) ELSE NoLlmCall
        IN  /\ IF faulted
               THEN /\ errors' = Append(errors, NodeError("Ethics error", call.error))
                    /\ UNCHANGED <<context, agent_outputs>>
               ELSE /\ context' = Put(context, "ethics_check", output.result)
                    /\ agent_outputs' = Put(agent_outputs, "ethics", output)
                    /\ UNCHANGED errors
            /\ trace' = Append(trace, TraceEntry("ethics", faulted, llm))
    /\ pc' = NextNode("ethics")
    /\ UNCHANGED <<query, final_result, entry, groq_llm, response, case_memory_vectors>>

\* _memory_node without its try/except: the exception leaves app.invoke
_memory_node_uncaught ==
    /\ pc = "memory"
    /\ \E crash \in Crashes(errors), case_id \in CaseIds, embOk \in BOOLEAN,
          success \in BOOLEAN :
        LET stored == Put(context, "memory_operation", "store")
        IN  \E call \in {
                Process(crash,
                        MemoryAgent_process(query, stored, case_id, embOk, success)) } :
        LET output == call.value
            faulted == call.raised
        IN  /\ IF faulted
               THEN /\ context' = stored
                    /\ pc' = "END"
                    /\ UNCHANGED <<agent_outputs, case_memory_vectors>>
               ELSE /\ context' = Put(stored, "agent_outputs", "state.agent_outputs")
                    /\ agent_outputs' = Put(agent_outputs, "memory", output)
                    /\ case_memory_vectors' =
                          IF success
                          THEN Append(case_memory_vectors,
                                      MemoryPayload(query, stored, case_id))
                          ELSE case_memory_vectors
                    /\ pc' = "summarization"
            /\ trace' = Append(trace, TraceEntry("memory", faulted, NoLlmCall))
    /\ UNCHANGED <<query, final_result, errors, entry, groq_llm, response>>

\* NyayaOrchestrator._memory_node; context["agent_outputs"] is set to the
\* dict state["agent_outputs"] itself, here the name of that dict
_memory_node ==
    /\ pc = "memory"
    /\ \E crash \in Crashes(errors), case_id \in CaseIds, embOk \in BOOLEAN, success \in BOOLEAN :
        LET stored == Put(context, "memory_operation", "store")
        IN  \E call \in {
                Process(crash,
                        MemoryAgent_process(query, stored, case_id, embOk, success)) } :
        LET output == call.value
            faulted == call.raised
        IN  /\ IF faulted
               THEN /\ errors' = Append(errors, NodeError("Memory error", call.error))
                    /\ context' = stored
                    /\ UNCHANGED <<agent_outputs, case_memory_vectors>>
               ELSE /\ context' = Put(stored, "agent_outputs", "state.agent_outputs")
                    /\ agent_outputs' = Put(agent_outputs, "memory", output)
                    /\ case_memory_vectors' =
                          IF success
                          THEN Append(case_memory_vectors,
                                      MemoryPayload(query, stored, case_id))
                          ELSE case_memory_vectors
                    /\ UNCHANGED errors
            /\ trace' = Append(trace, TraceEntry("memory", faulted, NoLlmCall))
    /\ pc' = NextNode("memory")
    /\ UNCHANGED <<query, final_result, entry, groq_llm, response>>

\* the final_result _summarization_node builds when the agent returned no
\* result (lines 253-267)
NodeFallbackResult(q, ctx) ==
    LET explanation == Or2(Get(ctx, "explanation", <<>>),
                           <<"U","n","a","b","l","e"," ","t","o"," ","g","e","n","e","r","a","t",
                             "e"," ","e","x","p","l","a","n","a","t","i","o","n",".">>)
    IN  ("query" :> q) @@
        ("unified_summary" :> Summary("explanation", explanation, EmptyDict)) @@
        ("normalized_query" :> Get(ctx, "normalized_query", NoneText)) @@
        ("domains" :> Get(ctx, "domains", <<>>)) @@
        ("statutes" :> Get(ctx, "statutes", <<>>)) @@
        ("similar_cases" :> Get(ctx, "similar_cases", <<>>)) @@
        ("recommendations" :> Get(ctx, "recommendations", <<>>)) @@
        ("retrieval_evidence" :>
            [statutes_count |-> Len(Get(ctx, "statutes", <<>>)),
             cases_count |-> Len(Get(ctx, "similar_cases", <<>>)),
             recommendations_count |-> Len(Get(ctx, "recommendations", <<>>))])

\* the final_result _summarization_node builds when the agent raised
\* (lines 272-276)
NodeErrorResult(q, e) ==
    ("query" :> q) @@
    ("unified_summary" :>
        Summary("node_error", <<"E","r","r","o","r"," ","g","e","n","e","r","a","t","i","n","g",
                                " ","u","n","i","f","i","e","d"," ","r","e","s","p","o","n","s",
                                "e","."," ","P","l","e","a","s","e"," ","t","r","y"," ","a","g",
                                "a","i","n",".">>,
                EmptyDict)) @@
    ("error" :> e)

\* the body of _summarization_node: what it does to final_result for the
\* call's outcome, given the agent outputs collected so far
SummarizationNodeResult(q, ctx, outputs, call) ==
    LET output == call.value
        memory_output == Get(outputs, "memory", NoneOutput("", ""))
    IN  IF call.raised THEN NodeErrorResult(q, call.error)
        ELSE IF output.has_result /\ DOMAIN output.result # {}
             THEN IF "case_id" \notin DOMAIN output.result
                     /\ "memory" \in DOMAIN outputs
                     /\ memory_output.has_result /\ DOMAIN memory_output.result # {}
                  THEN Put(output.result, "case_id",
                           Get(memory_output.result, "case_id", "None"))
                  ELSE output.result
             ELSE NodeFallbackResult(q, ctx)

\* NyayaOrchestrator._summarization_node
_summarization_node ==
    /\ pc = "summarization"
    /\ \E crash \in Crashes(errors), reply \in SummarizationReplies :
        LET input_context == Put(context, "agent_outputs", "state.agent_outputs")
        IN  \E call \in {
                Process(crash,
                        SummarizationAgent_process(query, input_context, groq_llm, reply)) } :
        LET output == call.value
            faulted == call.raised
            llm == IF ~crash /\ validate_input(query) /\ groq_llm # "None"
                      /\ ~PromptRaises(_collect_agent_outputs(input_context, agent_outputs))
                   THEN LlmCall(reply) ELSE NoLlmCall
        IN  /\ final_result' = SummarizationNodeResult(query, context, agent_outputs, call)
            /\ IF faulted
               THEN /\ errors' = Append(errors, NodeError("Summarization error", call.error))
                    /\ UNCHANGED agent_outputs
               ELSE /\ agent_outputs' = Put(agent_outputs, "summarization", output)
                    /\ UNCHANGED errors
            /\ trace' = Append(trace, TraceEntry("summarization", faulted, llm))
    /\ pc' = NextNode("summarization")
    /\ UNCHANGED <<query, context, entry, groq_llm, response, case_memory_vectors>>

\* str.find: the 0-based index of the first occurrence of k in s, or -1
Find(s, k) ==
    IF Contains(s, k)
    THEN CHOOSE i \in 0..(Len(s) - Len(k)) :
            /\ SubSeq(s, i + 1, i + Len(k)) = k
            /\ \A j \in 0..(i - 1) : SubSeq(s, j + 1, j + Len(k)) # k
    ELSE -1

\* s.split(k)[0]
Before(s, k) == IF Find(s, k) = -1 THEN s ELSE SubSeq(s, 1, Find(s, k))

\* s.split(k)[1], for s that contains k
After(s, k) == Before(SubSeq(s, Find(s, k) + Len(k) + 1, Len(s)), k)

\* one "if marker in response_text" block of _parse_synthesis_response
Section(response_text, marker) ==
    IF Contains(response_text, marker)
    THEN Strip(Before(After(response_text, marker), <<"[">>))
    ELSE <<>>

\* GroqLLM._parse_synthesis_response: the statements after the first return
\* are unreachable
_parse_synthesis_response(response_text) ==
    LET what_law_says == Section(response_text, <<"[","W","H","A","T"," ","T","H","E"," ","L","A",
                                                  "W"," ","G","E","N","E","R","A","L","L","Y"," ",
                                                  "S","A","Y","S","]">>)
        retrieved_evidence == Section(response_text, <<"[","R","E","T","R","I","E","V","E","D",
                                                       " ","E","V","I","D","E","N","C","E","]">>)
        similar_cases == Section(response_text, <<"[","S","I","M","I","L","A","R"," ","C","A","S",
                                                  "E"," ","E","X","A","M","P","L","E","S","]">>)
        web_sources == Section(response_text, <<"[","W","E","B"," ","S","O","U","R","C","E","S",
                                                "]">>)
        disclaimer ==
            IF Contains(response_text, <<"[","D","I","S","C","L","A","I","M","E","R","]">>)
            THEN Strip(After(response_text, <<"[","D","I","S","C","L","A","I","M","E","R","]">>)) ELSE <<>>
        confidence ==
            IF retrieved_evidence # <<>> \/ similar_cases # <<>> \/ web_sources # <<>>
            THEN "high"
            ELSE IF what_law_says # <<>> THEN "medium" ELSE "low"
    IN  ("plain_language_explanation" :>
            Section(response_text, <<"[","P","L","A","I","N"," ","L","A","N","G","U","A","G","E",
                                     " ","E","X","P","L","A","N","A","T","I","O","N","]">>)) @@
        ("what_law_says" :> what_law_says) @@
        ("retrieved_evidence" :> retrieved_evidence) @@
        ("similar_cases" :> similar_cases) @@
        ("web_sources" :> web_sources) @@
        ("what_you_can_consider" :>
            Section(response_text, <<"[","W","H","A","T"," ","Y","O","U"," ","C","A","N"," ","C",
                                     "O","N","S","I","D","E","R","]">>)) @@
        ("disclaimer" :> disclaimer) @@
        ("full_response" :> response_text) @@
        ("confidence_level" :> confidence)

\* GroqLLM.synthesize_legal_answer; reply: what the provider answers
synthesize_legal_answer(reply) ==
    IF reply.status = "ok" /\ reply.content.form = "prose"
    THEN _parse_synthesis_response(Strip(reply.content.text))
    ELSE ("summary" :> <<"U","n","a","b","l","e"," ","t","o"," ","g","e","n","e","r","a","t","e",
                         " ","s","y","n","t","h","e","s","i","s"," ","a","t"," ","t","h","i","s",
                         " ","t","i","m","e",".">>) @@
         ("confidence_level" :> "low") @@
         ("reasoning_steps" :> <<>>) @@
         ("limitations" :> <<"A","P","I"," ","e","r","r","o","r"," ","o","c","c","u","r","r","e",
                             "d">>) @@
         ("error" :> "provider")

SynthesisReplies ==
    { ProviderError,
      ProviderOk(Prose(<<"[","W","H","A","T"," ","T","H","E"," ","L","A","W"," ","G","E","N","E",
                         "R","A","L","L","Y"," ","S","A","Y","S","]"," ","R","T","I"," ","A","c",
                         "t"," ","2","0","0","5"," ","[","D","I","S","C","L","A","I","M","E","R",
                         "]"," ","N","o","t"," ","a","d","v","i","c","e">>)) }

\* the answer process_query_structured builds when groq_llm is None
\* (lines 381-392)
RetrievalOnlyAnswer(ctx) ==
    ("summary" :>
        Slice(Or2(Get(ctx, "explanation", <<>>),
                  <<"U","n","a","b","l","e"," ","t","o"," ","s","y","n","t","h","e","s","i","z",
                    "e"," ","r","e","s","p","o","n","s","e"," ","(","L","L","M"," ","u","n","a",
                    "v","a","i","l","a","b","l","e",")",".">>), 500)) @@
    ("confidence_level" :> "low") @@
    ("reasoning_steps" :>
        << <<"L","L","M"," ","s","y","n","t","h","e","s","i","s"," ","u","n","a","v","a","i","l",
             "a","b","l","e",";"," ","r","e","t","u","r","n","i","n","g"," ","r","e","t","r","i",
             "e","v","a","l","-","g","r","o","u","n","d","e","d"," ","s","u","m","m","a","r","y",
             " ","o","n","l","y",".">> >>) @@
    ("limitations" :> <<"G","r","o","q"," ","L","L","M"," ","n","o","t"," ","c","o","n","f","i",
                        "g","u","r","e","d","/","i","n","s","t","a","l","l","e","d",";"," ","n",
                        "o"," ","s","y","n","t","h","e","s","i","s"," ","p","e","r","f","o","r",
                        "m","e","d",".">>) @@
    ("disclaimers" :>
        << <<"T","h","i","s"," ","s","y","s","t","e","m"," ","p","r","o","v","i","d","e","s"," ",
             "l","e","g","a","l"," ","i","n","f","o","r","m","a","t","i","o","n"," ","o","n","l",
             "y",","," ","n","o","t"," ","l","e","g","a","l"," ","a","d","v","i","c","e",".">> >>)

\* the response process_query_structured returns from its except branch
\* (lines 474-494)
MinimalResponse(q, case_id, e) ==
    ("case_id" :> case_id) @@ ("query" :> q) @@ ("legal_domain" :> "general") @@
    ("llm_reasoned_answer" :>
        [summary |-> <<"E","r","r","o","r"," ","p","r","o","c","e","s","s","i","n","g"," ","q",
                       "u","e","r","y",":"," ">>, error |-> e,
         confidence_level |-> "low", reasoning_steps |-> <<>>,
         limitations |-> <<"E","r","r","o","r"," ","o","c","c","u","r","r","e","d"," ","d","u",
                           "r","i","n","g"," ","p","r","o","c","e","s","s","i","n","g">>,
         disclaimers |-> << <<"S","y","s","t","e","m"," ","e","r","r","o","r"," ","-"," ","p","l",
                              "e","a","s","e"," ","t","r","y"," ","a","g","a","i","n">> >>]) @@
    ("retrieved_evidence" :> [statutes |-> <<>>, cases |-> <<>>, total_evidence_count |-> 0]) @@
    ("similar_case_analysis" :> <<>>) @@
    ("civic_action_recommendations" :> <<>>) @@
    ("agent_trace" :>
        [classification_domain |-> "general", recommendation_count |-> 0])

\* the try body of process_query_structured after app.invoke (lines 344-469):
\* slicing None raises TypeError, a None in a required str field of a
\* pydantic model raises ValidationError
StructuredResponse(q, ctx, groq, reply, case_id) ==
    LET statutes == Take(Get(ctx, "statutes", <<>>), 5)
        cases_data == Take(Get(ctx, "similar_cases", <<>>), 5)
        recommendations_raw == Take(Get(ctx, "recommendations", <<>>), 5)
        cases ==
            [i \in 1..Len(cases_data) |->
                [case_name |-> Get(cases_data[i], "case_name", <<"U","n","k","n","o","w","n"," ",
                                                                 "C","a","s","e">>),
                 year |-> Get(cases_data[i], "year", "None"),
                 summary |-> Get(cases_data[i], "summary",
                                 Slice(Get(cases_data[i], "outcome", <<>>), 300)),
                 source |-> Get(cases_data[i], "source",
                                Get(cases_data[i], "citation", <<"U","n","k","n","o","w","n">>)),
                 relevance_score |-> Get(cases_data[i], "score", "None")]]
        llm_answer ==
            IF groq = "None" THEN RetrievalOnlyAnswer(ctx)
            ELSE synthesize_legal_answer(reply)
        similar_case_analysis ==
            [i \in 1..Len(cases_data) |->
                [case_context |-> Get(cases_data[i], "case_context", <<>>),
                 what_happened |-> Get(cases_data[i], "what_happened", <<>>),
                 outcome |-> Get(cases_data[i], "outcome", <<>>),
                 relevance_to_query |-> Get(cases_data[i], "relevance_to_query", <<>>),
                 source |-> Get(cases_data[i], "source", NoneText)]]
        civic_recommendations ==
            [i \in 1..Len(recommendations_raw) |->
                LET r == recommendations_raw[i]
                IN  [action |-> Get(r, "action", <<"U","n","n","a","m","e","d"," ","A","c","t",
                                                   "i","o","n">>),
                     responsible_authority |->
                         Get(r, "responsible_authority", Get(r, "authority", <<>>)),
                     why_this_matters |-> Get(r, "why_this_matters", <<>>),
                     next_step |-> Get(r, "next_step", <<>>),
                     estimated_timeline |-> Get(r, "estimated_timeline", NoneText),
                     is_legal_advice |-> Get(r, "is_legal_advice", FALSE)]]
        caseRaises ==
            \E i \in 1..Len(cases_data) :
                /\ "summary" \notin DOMAIN cases_data[i]
                /\ Get(cases_data[i], "outcome", <<>>) = NoneText
        analysisRaises ==
            \E i \in 1..Len(similar_case_analysis) :
                NoneText \in { similar_case_analysis[i].case_context,
                               similar_case_analysis[i].what_happened,
                               similar_case_analysis[i].outcome,
                               similar_case_analysis[i].relevance_to_query }
        recommendationRaises ==
            \E i \in 1..Len(civic_recommendations) :
                NoneText \in { civic_recommendations[i].action,
                               civic_recommendations[i].responsible_authority,
                               civic_recommendations[i].why_this_matters,
                               civic_recommendations[i].next_step }
        primary_domain == Get(ctx, "primary_domain", "general")
    IN  IF caseRaises THEN Raise("TypeError")
        ELSE IF analysisRaises \/ recommendationRaises THEN Raise("ValidationError")
        ELSE Return(
            ("case_id" :> case_id) @@ ("query" :> q) @@
            ("legal_domain" :> primary_domain) @@
            ("llm_reasoned_answer" :>
                [summary |-> Get(llm_answer, "summary", <<"U","n","a","b","l","e"," ","t","o"," ",
                                                          "s","y","n","t","h","e","s","i","z","e",
                                                          " ","r","e","s","p","o","n","s","e">>),
                 error |-> "",
                 confidence_level |-> Get(llm_answer, "confidence_level", "medium"),
                 reasoning_steps |-> Get(llm_answer, "reasoning_steps", <<>>),
                 limitations |-> Get(llm_answer, "limitations", <<>>),
                 disclaimers |-> Get(llm_answer, "disclaimers", <<>>)]) @@
            ("retrieved_evidence" :>
                [statutes |-> statutes, cases |-> cases,
                 total_evidence_count |-> Len(statutes) + Len(cases)]) @@
            ("similar_case_analysis" :> similar_case_analysis) @@
            ("civic_action_recommendations" :> civic_recommendations) @@
            ("agent_trace" :>
                [classification_domain |-> primary_domain,
                 recommendation_count |-> Len(civic_recommendations)]))

\* what the caller of an entry point gets
Returned(value) == [status |-> "returned", value |-> value]

Raised(e) == [status |-> "raised", value |-> ("error" :> e)]

\* self.app.invoke(initial_state) once the graph has reached END: every node
\* catches Exception, so the call returns the final state
app_invoke ==
    Return([final_result |-> final_result, context |-> context,
            agent_outputs |-> agent_outputs])

\* the try/except of NyayaOrchestrator.process_query around app.invoke
ProcessQueryReturn(q, invoke) ==
    IF invoke.raised
    THEN Returned(("query" :> q) @@ ("error" :> invoke.error) @@ ("errors" :> <<>>))
    ELSE Returned(invoke.value.final_result)

\* process_query_structured without its except branch
StructuredReturnUncaught(q, invoke, groq, reply, case_id) ==
    IF invoke.raised THEN Raised(invoke.error)
    ELSE LET call == StructuredResponse(q, invoke.value.context, groq, reply, case_id)
         IN  IF call.raised THEN Raised(call.error) ELSE Returned(call.value)

\* the try/except of NyayaOrchestrator.process_query_structured
StructuredReturn(q, invoke, groq, reply, case_id) ==
    IF invoke.raised THEN Returned(MinimalResponse(q, case_id, invoke.error))
    ELSE LET call == StructuredResponse(q, invoke.value.context, groq, reply, case_id)
         IN  IF call.raised THEN Returned(MinimalResponse(q, case_id, call.error))
             ELSE Returned(call.value)

\* NyayaOrchestrator.process_query returns to its caller
process_query ==
    /\ pc = "END"
    /\ entry = "process_query"
    /\ response' = ProcessQueryReturn(query, app_invoke)
    /\ pc' = "done"
    /\ UNCHANGED <<query, context, agent_outputs, final_result, errors, entry,
                   groq_llm, trace, case_memory_vectors>>

\* NyayaOrchestrator.process_query_structured returns to its caller
process_query_structured ==
    /\ pc = "END"
    /\ entry = "process_query_structured"
    /\ \E reply \in SynthesisReplies, case_id \in CaseIds :
        response' = StructuredReturn(query, app_invoke, groq_llm, reply, case_id)
    /\ pc' = "done"
    /\ UNCHANGED <<query, context, agent_outputs, final_result, errors, entry,
                   groq_llm, trace, case_memory_vectors>>

\* self.app.invoke(initial_state): LangGraph runs the node the last edge led to
Graph ==
    \/ _intake_node
    \/ _classification_node
    \/ _knowledge_node
    \/ _case_node
    \/ _reasoning_node
    \/ _recommendation_node
    \/ _ethics_node
    \/ _memory_node
    \/ _summarization_node

Next ==
    \/ Graph
    \/ process_query
    \/ process_query_structured

Spec == Init /\ [][Next]_vars

\* app.invoke alone: LangGraph keeps running nodes until the graph reaches END
Invoke == Init /\ [][Graph]_vars /\ WF_vars(Graph)

(***************************************************************************)
(* One agent called on its own, agent.process(AgentInput(query, context)), *)
(* as tests/test_basic.py calls the intake agent.                          *)
(***************************************************************************)
\* records of civic_process_vectors in descending order of score, all above
\* the 0.4 threshold of the recommendation search
ProcessRecords ==
    << Hit("r1", 90, ("action" :> <<"F","i","l","e"," ","R","T","I">>) @@
                     ("authority" :> <<"P","I","O">>)),
       Hit("r2", 85, ("action" :> <<"F","I","L","E"," ","r","t","i">>)),
       Hit("r3", 80, ("action" :> <<" ","f","i","l","e"," ","r","t","i"," ">>)),
       Hit("r4", 75, ("action" :> <<"A","p","p","e","a","l">>) @@ ("timeline" :> <<"3","0"," ","d","a","y","s">>)),
       Hit("r5", 70, ("action" :> <<"S","u","b","m","i","t"," ","f","o","r","m">>)),
       Hit("r6", 65, ("action" :> <<"C","a","l","l"," ","P","I","O">>)),
       Hit("r7", 60, ("action" :> <<"P","a","y"," ","f","e","e">>)),
       Hit("r8", 55, ("action" :> <<"V","i","s","i","t">>)) >>

\* the records of a sequence at the positions S, in their order
Pick(records, S) ==
    [k \in 1..Cardinality(S) |->
        records[CHOOSE i \in S : Cardinality({j \in S : j < i}) = k - 1]]

\* the query of the AgentInput
CallQueries ==
    { <<"F","i","l","e"," ","R","T","I","?">>, <<"L","a","t","e","s","t"," ","n","e","w","s">>, <<"R","i","g","h","t"," ","T","o"," ","I","n","f","o","r",
                                          "m","a","t","i","o","n"," ","o","n"," ","l","a","n","d",
                                          " ","t","a","x">>,
      <<"F","I","R",","," ","t","a","x",","," ","l","a","n","d",":"," ","r","i","g","h","t"," ",
        "t","o"," ","i","n","f","o","r","m","a","t","i","o","n">>, <<" ">>, <<>> }

InitCall ==
    /\ query \in CallQueries
    /\ context \in { ("user_id" :> "anonymous"),
                      ("user_id" :> "anonymous") @@ ("embedding" :> "vector") }
    /\ agent_outputs = EmptyDict
    /\ final_result = EmptyDict
    /\ errors = <<>>
    /\ pc = "call"
    /\ entry = "process"
    /\ groq_llm \in {"None", "client"}
    /\ response = [status |-> "pending", value |-> EmptyDict]
    /\ trace = <<>>
    /\ case_memory_vectors = <<>>

\* the caller of agent.process gets the AgentOutput or the exception
Called(name, call) ==
    /\ IF call.raised
       THEN /\ response' = Raised(call.error)
            /\ UNCHANGED agent_outputs
       ELSE /\ agent_outputs' = Put(agent_outputs, name, call.value)
            /\ UNCHANGED response
    /\ pc' = "called"
    /\ UNCHANGED <<query, context, final_result, errors, entry, groq_llm,
                   trace, case_memory_vectors>>

\* IntakeAgent.process called on the query
IntakeAgent_call ==
    /\ pc = "call"
    /\ \E embOk \in BOOLEAN :
        \E call \in { IntakeAgent_process(query, embOk) } :
            Called("intake", call)

\* what the search of legal_taxonomy_vectors returns: nothing (store out of
\* reach or no point near the query), the sample taxonomy's points, a chunk of
\* a Law Commission report (generic_ingest_url stores no "domain"), or both
TaxonomyResults ==
    LET sample == search("legal_taxonomy_vectors", 3, 40, EmptyDict, TRUE)
        chunk == Hit("1762154000-0", 70, ("source_name" :> "law_commission_of_india"))
    IN  { search("legal_taxonomy_vectors", 3, 40, EmptyDict, FALSE),
          sample, <<chunk>>, Take(<<chunk>> \o sample, 3) }

\* ClassificationAgent.process called
ClassificationAgent_call ==
    /\ pc = "call"
    /\ \E reply \in ClassifyReplies, embOk \in BOOLEAN, searched \in TaxonomyResults :
        \E call \in {
                ClassificationAgent_process(query, context, groq_llm, reply, embOk,
                    searched) } :
            Called("classification", call)

\* KnowledgeRetrievalAgent.process called
KnowledgeRetrievalAgent_call ==
    /\ pc = "call"
    /\ \E embOk \in BOOLEAN, reachable \in BOOLEAN :
        \E call \in {
                KnowledgeRetrievalAgent_process(query, context, embOk,
                    search("statutes_vectors", 5, 50, DomainFilter(context), reachable)) } :
            Called("knowledge", call)

\* what the search of case_law_vectors returns: nothing, the sample cases,
\* or the sample cases around a chunk of a judgment from WorldLII
\* (ingest_connectors.py stores neither case_name nor citation), best first
CaseResults ==
    LET sample == search("case_law_vectors", 5, 50, DomainFilter(context), TRUE)
        chunk == Hit("uuid-chunk", 85,
                     ("source_name" :> "worldlii_indlii") @@
                     ("chunk_text" :> <<"T","h","e"," ","a","p","p","e","a","l"," ","i","s"," ",
                                        "a","l","l","o","w","e","d">>))
    IN  { search("case_law_vectors", 5, 50, DomainFilter(context), FALSE),
          sample,
          Take(Take(sample, 1) \o <<chunk>> \o SubSeq(sample, 2, Len(sample)), 5) }

\* CaseSimilarityAgent.process called
CaseSimilarityAgent_call ==
    /\ pc = "call"
    /\ \E reply \in CaseReplies, embOk \in BOOLEAN, searched \in CaseResults :
        \E call \in {
                CaseSimilarityAgent_process(query, context, groq_llm, reply, embOk,
                    searched) } :
            Called("case_similarity", call)

\* ReasoningAgent.process called
ReasoningAgent_call ==
    /\ pc = "call"
    /\ \E reply \in ReasoningReplies :
        \E call \in { ReasoningAgent_process(query, context, groq_llm, reply) } :
            Called("reasoning", call)

\* WebSearchAgent.process called
WebSearchAgent_call ==
    /\ pc = "call"
    /\ \E tavily \in {"None", "client"}, web_results \in WebResults :
        \E call \in { WebSearchAgent_process(query, tavily, web_results) } :
            Called("web_search", call)

\* a provider answer with more than the five recommendations asked for, one
\* of the items not an object
LongRecommendationReply ==
    LET step == [is_dict |-> TRUE, fields |-> ("action" :> <<"A","p","p","l","y">>)]
    IN  ProviderOk(JsonList(<< step, [is_dict |-> FALSE, fields |-> EmptyDict],
                               step, step, step, step, step >>))

\* RecommendationAgent.process called with what the search returned
RecommendationAgent_call ==
    /\ pc = "call"
    /\ \E S \in SUBSET (1..Len(ProcessRecords)),
          reply \in RecommendationReplies \cup {LongRecommendationReply},
          embOk \in BOOLEAN :
        \E call \in {
                RecommendationAgent_process(query, context, groq_llm, reply, embOk,
                                            Pick(ProcessRecords, S)) } :
            Called("recommendation", call)

\* the most statutes and cases the context handed to the summarization
\* agent holds; recommendations may be one more
MaxEvidence == 5

\* a context as the orchestrator accumulates it, with s statutes, c similar
\* cases and r recommendations
EvidenceContext(s, c, r, explanation, domains) ==
    ("user_id" :> "anonymous") @@
    ("domains" :> domains) @@
    ("statutes" :>
        [i \in 1..s |-> ("id" :> "s") @@ ("title" :> <<"R","T","I"," ","A","c","t">>) @@ ("score" :> 80)]) @@
    ("similar_cases" :>
        [i \in 1..c |-> ("case_name" :> <<"C","B","S","E"," ","v","."," ","A","d","i","t","y","a">>) @@
                        ("outcome" :> <<"A","l","l","o","w","e","d">>)]) @@
    ("recommendations" :>
        [i \in 1..r |-> ("action" :> <<"F","i","l","e"," ","R","T","I">>) @@ ("is_legal_advice" :> FALSE) @@
                        ("sequence" :> i)]) @@
    ("explanation" :> explanation)

EvidenceContexts ==
    { EvidenceContext(s, c, r, explanation, domains) :
        s \in 0..MaxEvidence, c \in 0..MaxEvidence, r \in 0..(MaxEvidence + 1),
        explanation \in { <<>>, <<" ">>, <<"R","T","I">> },
        domains \in { <<>>, <<"civic_rights">> } }

\* SummarizationAgent.process called with a context the caller built
SummarizationAgent_call ==
    /\ pc = "call"
    /\ \E ctx \in EvidenceContexts, reply \in SummarizationReplies :
        \E call \in {
                SummarizationAgent_process(query,
                    Put(ctx, "agent_outputs", "state.agent_outputs"), groq_llm, reply) } :
            /\ ~call.raised
            /\ context' = ctx
            /\ agent_outputs' = Put(agent_outputs, "summarization", call.value)
    /\ pc' = "called"
    /\ UNCHANGED <<query, final_result, errors, entry, groq_llm, response,
                   trace, case_memory_vectors>>

\* RouterAgent.process called on the query
RouterAgent_call ==
    /\ pc = "call"
    /\ \E reply \in RouterReplies :
        \E call \in { RouterAgent_process(query, groq_llm, reply) } :
            /\ ~call.raised
            /\ agent_outputs' = Put(agent_outputs, "router", call.value)
    /\ pc' = "called"
    /\ UNCHANGED <<query, context, final_result, errors, entry, groq_llm, response,
                   trace, case_memory_vectors>>

\* query of simple_pipeline called; what it returns is the response
simple_pipeline_query_call ==
    /\ pc = "call"
    /\ \E reply \in SummarizationReplies, embOk \in BOOLEAN, reachable \in BOOLEAN,
          tavily \in {"None", "client"}, web_hits \in WebResults :
        /\ pc' = "called"
        /\ response' = Returned(simple_pipeline_query(query, groq_llm, reply, embOk,
                                                      reachable, tavily, web_hits))
        /\ UNCHANGED <<query, context, agent_outputs, final_result, errors, entry,
                       groq_llm, trace, case_memory_vectors>>

Call ==
    \/ IntakeAgent_call
    \/ ClassificationAgent_call
    \/ KnowledgeRetrievalAgent_call
    \/ CaseSimilarityAgent_call
    \/ ReasoningAgent_call
    \/ RecommendationAgent_call
    \/ SummarizationAgent_call
    \/ RouterAgent_call
    \/ WebSearchAgent_call
    \/ simple_pipeline_query_call

AgentCalls == InitCall /\ [][Call]_vars

(***************************************************************************)
(* Properties.                                                             *)
(***************************************************************************)
\* the steps that have run, in order
StepsRun == [i \in 1..Len(trace) |-> trace[i].step]

\* the steps of this run that faulted inside their node
FaultedSteps == {trace[i].step : i \in {j \in 1..Len(trace) : trace[j].faulted}}

Finished == pc \in {"END", "done"}

\* C1: for every query, empty and whitespace-only ones included, and every
\* combination of failing steps and providers, process_query and
\* process_query_structured return a response object and never raise.
C1_AlwaysReturnsResponse ==
    /\ response.status \in {"pending", "returned"}
    /\ pc # "done" => ENABLED Next
    /\ pc = "done" => response.status = "returned" /\ DOMAIN response.value # {}

\* a whitespace-only query has been answered through the structured entry
\* point after six or more steps faulted
C1_Witness ==
    /\ pc = "done"
    /\ query # <<>>
    /\ ~validate_input(query)
    /\ entry = "process_query_structured"
    /\ response.status = "returned"
    /\ Cardinality(FaultedSteps) >= 6

\* C2: the steps run exactly once each in the fixed order intake,
\* classification, knowledge_retrieval, case_similarity, reasoning,
\* recommendation, ethics, memory, summarization, whatever the query and the
\* outcome of earlier steps.
C2_FixedOrder ==
    /\ Len(trace) <= Len(STEPS)
    /\ StepsRun = SubSeq(STEPS, 1, Len(trace))
    /\ Finished => StepsRun = STEPS
    /\ ~Finished => pc = STEPS[Len(trace) + 1]

\* a run has ended with all nine steps run although three of them faulted
C2_Witness ==
    /\ pc = "done"
    /\ StepsRun = STEPS
    /\ validate_input(query)
    /\ {"intake", "knowledge_retrieval", "memory"} \subseteq FaultedSteps

\* one step of the graph: a node runs once, a fault adds exactly one message
\* to errors and nothing else does, and the edge to the next node is taken
C3_Step ==
    pc \notin {"END", "done"} =>
        /\ Len(trace') = Len(trace) + 1
        /\ trace'[Len(trace')].step = pc
        /\ Len(errors') =
               Len(errors) + (IF trace'[Len(trace')].faulted THEN 1 ELSE 0)
        /\ SubSeq(errors', 1, Len(errors)) = errors
        /\ pc' = NextNode(pc)

\* C3: a fault raised inside a node is caught, appends exactly one message to
\* errors and the pipeline proceeds; so every run eventually executes the
\* summarization step and ends with a non-empty final_result.
C3_FaultsDoNotHalt ==
    /\ [][C3_Step]_vars
    /\ <>(/\ pc = "END"
          /\ trace[Len(trace)].step = "summarization"
          /\ Len(errors) = Cardinality(FaultedSteps)
          /\ DOMAIN final_result # {})

\* the memory step faulted, one message per faulted step is in errors, and
\* the summarization step has run and left a final_result
C3_Witness ==
    /\ pc = "END"
    /\ "memory" \in FaultedSteps
    /\ Cardinality(FaultedSteps) >= 3
    /\ Len(errors) = Cardinality(FaultedSteps)
    /\ trace[Len(trace)].step = "summarization"
    /\ DOMAIN final_result # {}

\* C4: an empty or whitespace-only query short-circuits before the pipeline
\* starts: no step is invoked for it and the result carries confidence 0.
C4_EmptyQueryShortCircuits ==
    ~validate_input(query) =>
        /\ trace = <<>>
        /\ pc = "done" => Get(response.value, "confidence", -1) = 0

\* C5: the response process_query returns for a run in which a step faulted
\* exposes a non-empty errors list.
C5_ResponseExposesErrors ==
    (pc = "done" /\ entry = "process_query" /\ FaultedSteps # {}) =>
        Get(response.value, "errors", <<>>) # <<>>

\* the final_result of this run had its memory step stored the case: the
\* summarization step run again on the same context, outcome and provider
\* reply, with the output of a successful store in agent_outputs
WithSuccessfulPersist ==
    LET stored == MemoryAgent_process(query, context, CHOOSE id \in CaseIds : TRUE,
                                      TRUE, TRUE)
        outputs == Put(agent_outputs, "memory", stored.value)
        last == trace[Len(trace)]
        call == Process(last.faulted,
                    SummarizationAgent_process(
                        query, Put(context, "agent_outputs", "state.agent_outputs"),
                        groq_llm, last.llm.reply))
    IN  SummarizationNodeResult(query, context, outputs, call)

\* the memory step raised, or its store write returned failure
PersistFailed ==
    \/ "memory" \in FaultedSteps
    \/ /\ "memory" \in DOMAIN agent_outputs
       /\ ~agent_outputs["memory"].result["stored"]

\* C6: a failed persist step, raising or returning failure, never keeps the
\* summarization step from running, and the response equals that of the
\* same run with a successful persist.
C6_PersistFailureInvisible ==
    (pc = "END" /\ PersistFailed) =>
        /\ trace[Len(trace)].step = "summarization"
        /\ final_result = WithSuccessfulPersist

\* C7: generate_response never raises, and every provider error or empty
\* provider answer is converted to the empty result.
C7_GatewayConvertsToEmpty ==
    \A i \in 1..Len(trace) :
        trace[i].llm.called =>
            /\ ~trace[i].llm.raised
            /\ (trace[i].llm.reply.status = "error" \/ IsBlank(trace[i].llm.reply.content))
                   => IsBlank(trace[i].llm.returned)

\* generation for synthesis yielded nothing: no provider is configured, the
\* provider call failed, or the provider returned no text
SynthesisYieldedNothing ==
    \/ groq_llm = "None"
    \/ /\ trace[Len(trace)].llm.called
       /\ \/ trace[Len(trace)].llm.reply.status = "error"
          \/ IsBlank(trace[Len(trace)].llm.reply.content)

\* C8: when generation for synthesis yields nothing, the summarization step
\* builds unified_summary from the deterministic template, with no model text.
C8_TemplateWhenGenerationEmpty ==
    (/\ pc = "END"
     /\ "summarization" \in DOMAIN agent_outputs
     /\ agent_outputs["summarization"].has_result
     /\ agent_outputs["summarization"].confidence > 0
     /\ SynthesisYieldedNothing) =>
        final_result["unified_summary"].kind = "template"

\* C9: every final response of the synthesis stage carries a non-empty
\* standard disclaimer, the orchestrator's own fallback results included.
C9_StandardDisclaimerAlways ==
    Finished =>
        /\ "disclaimers" \in DOMAIN final_result
        /\ final_result["disclaimers"].standard # ""

\* the explanation or the combined text of a recommendation contains one of
\* the problematic phrases
HasProblematicPhrase(explanation, recommendations) ==
    \/ FoundKeywords(Lower(explanation)) # <<>>
    \/ \E i \in 1..Len(recommendations) :
           /\ ~KeywordScanRaises(<<recommendations[i]>>)
           /\ FoundKeywords(CombinedText(recommendations[i])) # <<>>

\* C10: if the explanation or a recommendation reaching the safety check
\* contains a problematic phrase, the safety result has is_safe = false and a
\* non-empty safety disclaimer, whichever tier performed the check.
C10_ProblematicMeansUnsafe ==
    ("ethics_check" \in DOMAIN context
     /\ HasProblematicPhrase(Get(context, "explanation", <<>>),
                             Get(context, "recommendations", <<>>))) =>
        /\ ~context["ethics_check"]["is_safe"]
        /\ context["ethics_check"]["safety_disclaimer"] # ""

\* the recommendation lists a caller or a later step can see: the shared
\* state's, the recommendation agent's output and the structured response's
RecommendationLists ==
    { Get(context, "recommendations", <<>>) } \cup
    { Get(agent_outputs[k].result, "recommendations", <<>>) :
          k \in DOMAIN agent_outputs \cap {"recommendation"} } \cup
    { Get(response.value, "civic_action_recommendations", <<>>) }

\* C11: every recommendation the recommendation step writes to the shared
\* state, in the model tier or the template tier, and every recommendation of
\* the structured response has is_legal_advice = false.
C11_NeverLegalAdvice ==
    \A recs \in RecommendationLists :
        \A i \in 1..Len(recs) :
            /\ "is_legal_advice" \in DOMAIN recs[i]
            /\ recs[i]["is_legal_advice"] = FALSE

\* the model tier structured a reply whose item says is_legal_advice: true,
\* and the structured response carries the recommendation
C11_Witness ==
    /\ pc = "done" /\ entry = "process_query_structured"
    /\ "recommendation" \in DOMAIN agent_outputs
    /\ agent_outputs["recommendation"].reasoning = "llm"
    /\ Get(context, "recommendations", <<>>) # <<>>
    /\ Len(Get(response.value, "civic_action_recommendations", <<>>)) =
           Len(Get(context, "recommendations", <<>>))
    /\ \E i \in 1..Len(trace) :
           /\ trace[i].step = "recommendation"
           /\ trace[i].llm.called
           /\ trace[i].llm.reply.status = "ok"

\* the positions of the records whose action name, compared by Key, no
\* earlier record has
FirstSeen(records, Key(_)) ==
    {i \in 1..Len(records) :
        \A j \in 1..(i - 1) : Key(records[j]) # Key(records[i])}

\* an action name up to letter case
CaseKey(hit) == Lower(Get(hit.payload, "action", <<>>))

\* an action name up to letter case and surrounding whitespace
TrimmedCaseKey(hit) == Lower(Strip(Get(hit.payload, "action", <<>>)))

\* the recommendations are the records first, one each, in their order,
\* numbered from 1
OnePerRecord(recommendations, first) ==
    /\ Len(recommendations) = Len(first)
    /\ \A k \in 1..Len(first) :
           /\ recommendations[k]["action"] = first[k].payload["action"]
           /\ recommendations[k]["sequence"] = k

ClaimedConfidence(domains, statutes, cases, recommendations, explanation) ==
    LET sum == 30 + (IF domains # <<>> THEN 10 ELSE 0)
                  + (IF 5 * Len(statutes) < 20 THEN 5 * Len(statutes) ELSE 20)
                  + (IF 5 * Len(cases) < 20 THEN 5 * Len(cases) ELSE 20)
                  + (IF 2 * Len(recommendations) < 10 THEN 2 * Len(recommendations)
                     ELSE 10)
                  + (IF explanation # <<>> THEN 10 ELSE 0)
    IN  IF sum < 100 THEN sum ELSE 100

\* the confidence the summarization agent computes for ctx
ConfidenceFor(ctx) ==
    _calculate_confidence(_collect_agent_outputs(ctx, EmptyDict))

\* C13: the confidence the summarization step computes is
\* min(1, 0.3 + 0.1*[domains] + min(0.2, 0.05*statutes) + min(0.2, 0.05*cases)
\* + min(0.1, 0.02*recommendations) + 0.1*[explanation]); it lies in [0,1],
\* and one more statute or one more case never decreases it.
C13_ConfidenceFormula ==
    "summarization" \in DOMAIN agent_outputs =>
        LET output == agent_outputs["summarization"]
            statutes == Get(context, "statutes", <<>>)
            cases == Get(context, "similar_cases", <<>>)
        IN  /\ output.confidence \in 0..100
            /\ (output.has_result /\ "error" \notin DOMAIN output.result) =>
                 /\ output.confidence =
                        ClaimedConfidence(Get(context, "domains", <<>>), statutes, cases,
                                          Get(context, "recommendations", <<>>),
                                          Get(context, "explanation", <<>>))
                 /\ output.confidence <=
                        ConfidenceFor(Put(context, "statutes",
                                          Append(statutes, ("title" :> <<"t">>))))
                 /\ output.confidence <=
                        ConfidenceFor(Put(context, "similar_cases",
                                          Append(cases, ("case_name" :> <<"c">>))))

\* every term is at its cap: five statutes, five cases, six recommendations,
\* domains and an explanation give 1.0
C13_Witness ==
    /\ pc = "called"
    /\ "summarization" \in DOMAIN agent_outputs
    /\ agent_outputs["summarization"].confidence = 100
    /\ Len(Get(context, "statutes", <<>>)) = 5
    /\ Len(Get(context, "similar_cases", <<>>)) = 5
    /\ Len(Get(context, "recommendations", <<>>)) = 6

\* no provider answered during the run: every generation call failed, no
\* agent got a document from the vector store, and the synthesis call of
\* process_query_structured, where a client exists, failed too
AllProvidersDown ==
    /\ \A i \in 1..Len(trace) :
           trace[i].llm.called => trace[i].llm.reply.status = "error"
    /\ \A k \in DOMAIN agent_outputs : agent_outputs[k].retrieved_documents = <<>>
    /\ response \in { StructuredReturn(query, app_invoke, groq_llm, ProviderError, case_id) :
                         case_id \in CaseIds }

\* C14: with the vector store, the text-generation provider and web search
\* all down, the structured response has a non-empty disclaimers list,
\* total_evidence_count = 0 and confidence_level "low".
C14_DegradedStructuredResponse ==
    (pc = "done" /\ entry = "process_query_structured" /\ AllProvidersDown) =>
        /\ response.value["llm_reasoned_answer"].disclaimers # <<>>
        /\ response.value["retrieved_evidence"].total_evidence_count = 0
        /\ response.value["llm_reasoned_answer"].confidence_level = "low"

\* the node that called the agent records a fault
Faults(call) == call.raised \/ ~call.value.has_result

\* with the store down the agent gets nothing from the search, and it faults
\* only if it faults with the store up as well
ContinuesWithoutEvidence(down, up) ==
    /\ Faults(down) => Faults(up)
    /\ ~Faults(down) => down.value.retrieved_documents = <<>>

\* C15: search never raises to its caller; when the vector store is
\* unreachable or the call fails it returns the empty sequence, so the step
\* that called it goes on with empty evidence: the outage makes no step fault.
C15_SearchFailsEmpty ==
    /\ \A collection_name \in {"legal_taxonomy_vectors", "statutes_vectors",
                                "case_law_vectors", "civic_process_vectors"} :
           search(collection_name, 10, 40, DomainFilter(context), FALSE) = <<>>
    /\ pc = "classification" =>
           \A reply \in ClassifyReplies, embOk \in BOOLEAN :
               ContinuesWithoutEvidence(
                   ClassificationAgent_process(query, context, groq_llm, reply, embOk,
                       search("legal_taxonomy_vectors", 3, 40, EmptyDict, FALSE)),
                   ClassificationAgent_process(query, context, groq_llm, reply, embOk,
                       search("legal_taxonomy_vectors", 3, 40, EmptyDict, TRUE)))
    /\ pc = "knowledge_retrieval" =>
           \A embOk \in BOOLEAN :
               ContinuesWithoutEvidence(
                   KnowledgeRetrievalAgent_process(query, context, embOk,
                       search("statutes_vectors", 5, 50, DomainFilter(context), FALSE)),
                   KnowledgeRetrievalAgent_process(query, context, embOk,
                       search("statutes_vectors", 5, 50, DomainFilter(context), TRUE)))
    /\ pc = "case_similarity" =>
           \A reply \in CaseReplies, embOk \in BOOLEAN :
               ContinuesWithoutEvidence(
                   CaseSimilarityAgent_process(query, context, groq_llm, reply, embOk,
                       search("case_law_vectors", 5, 50, DomainFilter(context), FALSE)),
                   CaseSimilarityAgent_process(query, context, groq_llm, reply, embOk,
                       search("case_law_vectors", 5, 50, DomainFilter(context), TRUE)))
    /\ pc = "recommendation" =>
           \A reply \in RecommendationReplies, embOk \in BOOLEAN :
               ContinuesWithoutEvidence(
                   RecommendationAgent_process(query, context, groq_llm, reply, embOk,
                       search("civic_process_vectors", 10, 40, DomainFilter(context), FALSE)),
                   RecommendationAgent_process(query, context, groq_llm, reply, embOk,
                       search("civic_process_vectors", 10, 40, DomainFilter(context), TRUE)))

\* the case-similarity step ran without a fault and without a document
\* although the collection holds cases that match the query's filter
C15_Witness ==
    /\ "case_similarity" \in DOMAIN agent_outputs
    /\ agent_outputs["case_similarity"].retrieved_documents = <<>>
    /\ search("case_law_vectors", 5, 50, DomainFilter(context), TRUE) # <<>>
    /\ "case_similarity" \notin FaultedSteps
    /\ pc = "reasoning"

\* names is a subsequence of the orchestrator's step sequence: only steps of
\* it, each once, in its order
IsSubsequenceOfSteps(names) ==
    LET Position(name) == CHOOSE i \in 1..Len(STEPS) : STEPS[i] = name
    IN  /\ \A i \in 1..Len(names) : \E j \in 1..Len(STEPS) : STEPS[j] = names[i]
        /\ \A i, j \in 1..Len(names) :
               i < j => Position(names[i]) < Position(names[j])

\* names without the entries equal to name
Without(names, name) ==
    LET Keep(n) == n # name IN SelectSeq(names, Keep)

\* C16 as stated: every pipeline the router selects, for each of the five
\* query types, is a subsequence of the orchestrator's fixed step sequence.
C16_PipelineIsSubsequence ==
    ("router" \in DOMAIN agent_outputs /\ validate_input(query)) =>
        IsSubsequenceOfSteps(agent_outputs["router"].result["agents"])

\* C16 as amended: for a non-empty query, the pipeline the router selects
\* for legal_info, case_search, civic_action and simple_qa is a subsequence
\* of the orchestrator's fixed step sequence; the pipeline for web_search is
\* one but for its web_search step, which the orchestrator's sequence does
\* not have.
C16_SubsequenceButWebSearch ==
    ("router" \in DOMAIN agent_outputs /\ validate_input(query)) =>
        LET result == agent_outputs["router"].result
        IN  /\ \E i \in 1..Len(QUERY_TYPES) : QUERY_TYPES[i] = result["query_type"]
            /\ result["query_type"] # "web_search" =>
                   IsSubsequenceOfSteps(result["agents"])
            /\ result["query_type"] = "web_search" =>
                   /\ ~IsSubsequenceOfSteps(result["agents"])
                   /\ IsSubsequenceOfSteps(Without(result["agents"], "web_search"))

\* the keyword tier routed "Latest news" to the web_search pipeline
C16_Witness ==
    /\ pc = "called"
    /\ "router" \in DOMAIN agent_outputs
    /\ validate_input(query)
    /\ agent_outputs["router"].reasoning = "keyword"
    /\ agent_outputs["router"].result["query_type"] = "web_search"
    /\ Len(agent_outputs["router"].result["agents"]) = 5

\* the reasoning step has run
ReasoningHasRun == \E i \in 1..Len(trace) : trace[i].step = "reasoning"

\* C17: once the reasoning step has run, whether the agent returned text,
\* returned no result or raised, the shared state's explanation is a
\* non-empty, non-whitespace string.
C17_ExplanationNeverEmpty ==
    ReasoningHasRun =>
        /\ "explanation" \in DOMAIN context
        /\ context["explanation"] # NoneText
        /\ Strip(context["explanation"]) # <<>>

\* the agent returned no result for a blank query and the node substituted
\* its sentence about the evidence counts
C17_Witness ==
    /\ ReasoningHasRun
    /\ ~validate_input(query)
    /\ "reasoning" \notin FaultedSteps
    /\ ~agent_outputs["reasoning"].has_result
    /\ pc = "recommendation"
    /\ Contains(context["explanation"], <<"B", "a", "s", "e", "d", " ", "o", "n", " ", "0">>)

\* the reasoning texts of the agents that contain "Invalid"
InvalidReasonings ==
    {"Invalid input", "Invalid input: empty query", "Invalid input, defaulting to simple QA"}

\* the output an agent gives for a query it rejects: confidence 0.0, no
\* result, "Invalid" in the reasoning, nothing retrieved
Rejected(output) ==
    /\ output.confidence = 0
    /\ ~output.has_result
    /\ output.reasoning \in InvalidReasonings
    /\ output.retrieved_documents = <<>>

\* for a non-empty query the intake result contains normalized_query
IntakeNormalizes ==
    (validate_input(query) /\ "intake" \in DOMAIN agent_outputs) =>
        /\ agent_outputs["intake"].has_result
        /\ "normalized_query" \in DOMAIN agent_outputs["intake"].result

\* C18 as stated: for an empty or whitespace-only query the intake agent,
\* like every agent that calls validate_input, returns confidence 0.0, no
\* result and a reasoning containing "Invalid", without invoking the
\* embedding, retrieval or generation providers (so no failure of theirs
\* reaches the caller); for a non-empty query the intake result contains
\* normalized_query.
C18_EveryAgentRejects ==
    /\ ~validate_input(query) =>
           /\ response.status # "raised"
           /\ \A name \in DOMAIN agent_outputs : Rejected(agent_outputs[name])
    /\ IntakeNormalizes

\* C18 as amended: the same for the intake agent and every agent that calls
\* validate_input except the router, which answers an empty or
\* whitespace-only query with its default simple_qa result at confidence 0.5.
C18_EveryAgentButRouterRejects ==
    /\ ~validate_input(query) =>
           /\ response.status # "raised"
           /\ \A name \in DOMAIN agent_outputs \ {"router"} :
                  Rejected(agent_outputs[name])
           /\ "router" \in DOMAIN agent_outputs =>
                  /\ agent_outputs["router"].confidence = 50
                  /\ agent_outputs["router"].has_result
                  /\ agent_outputs["router"].result["query_type"] = "simple_qa"
                  /\ agent_outputs["router"].reasoning \in InvalidReasonings
    /\ IntakeNormalizes

\* the intake agent was called on a whitespace-only query
C18_Witness ==
    /\ pc = "called"
    /\ query # <<>> /\ ~validate_input(query)
    /\ "intake" \in DOMAIN agent_outputs
    /\ Rejected(agent_outputs["intake"])

\* the classification agent was called and returned a classification
Classified ==
    /\ "classification" \in DOMAIN agent_outputs
    /\ agent_outputs["classification"].has_result

\* the first non-empty list of the three tiers' lists, or the last one
FirstNonEmpty(llm, taxonomy, keyword) ==
    IF llm # <<>> THEN llm ELSE IF taxonomy # <<>> THEN taxonomy ELSE keyword

\* C19: the classification tiers are attempted strictly in the order model,
\* taxonomy search, keyword matching: a later tier is invoked only if every
\* earlier one produced no domain (when the model tier produces domains no
\* embedding is computed and no taxonomy hit is retrieved), and the domains
\* are exactly what the first tier with a non-empty list produces standalone.
C19_TiersInOrder ==
    /\ Classified =>
          LET output == agent_outputs["classification"]
              domains == output.result["domains"]
              taxonomy == TaxonomyDomains(output.retrieved_documents, <<>>)
          IN  /\ output.reasoning \in {"llm", "taxonomy", "keyword"}
              /\ output.reasoning = "llm" =>
                     /\ domains # <<>>
                     /\ output.retrieved_documents = <<>>
                     /\ \E reply \in ClassifyReplies :
                            domains = _llm_classify(query, groq_llm, reply)
              /\ output.reasoning = "taxonomy" =>
                     domains # <<>> /\ domains = taxonomy
              /\ output.reasoning = "keyword" =>
                     taxonomy = <<>> /\ domains = _keyword_classify(query)
    /\ (pc = "call" /\ validate_input(query)) =>
          \A reply \in ClassifyReplies, embOk \in BOOLEAN, searched \in TaxonomyResults :
              LET call == ClassificationAgent_process(query, context, groq_llm, reply,
                                                      embOk, searched)
                  llm == _llm_classify(query, groq_llm, reply)
              IN  /\ llm # <<>> =>
                         ~call.raised /\ call.value.retrieved_documents = <<>>
                  /\ ~call.raised =>
                         call.value.result["domains"] =
                             FirstNonEmpty(llm, TaxonomyDomains(searched, <<>>),
                                           _keyword_classify(query))

\* each tier has given the domains of a classification: the model, the
\* taxonomy behind a report chunk without a domain, the keywords
C19_Witness ==
    /\ Classified
    /\ agent_outputs["classification"].result["domains"] # <<>>
    /\ \/ /\ agent_outputs["classification"].reasoning = "keyword"
          /\ agent_outputs["classification"].retrieved_documents # <<>>
       \/ /\ agent_outputs["classification"].reasoning = "taxonomy"
          /\ groq_llm = "client"
          /\ Len(agent_outputs["classification"].retrieved_documents) = 3

\* the first taxonomy hit, when it carries a domain, gives the primary domain
\* and the confidence
TopHitDecides(output) ==
    (/\ output.reasoning # "llm"
     /\ output.retrieved_documents # <<>>
     /\ Get(output.retrieved_documents[1].payload, "domain", "") # "") =>
        /\ output.result["primary_domain"] =
               output.retrieved_documents[1].payload["domain"]
        /\ output.confidence = output.retrieved_documents[1].score

\* C20 as stated: the classification confidence is 0.85 if the model tier
\* fired; if the taxonomy or the keyword tier fired it is the top retrieval
\* score whenever retrieval evidence exists, otherwise a fixed constant
\* (0.5); with the model tier failing and a taxonomy hit with domain d and
\* score s, primary_domain = d and confidence = s.
C20_ConfidenceFollowsTier ==
    Classified =>
        LET output == agent_outputs["classification"]
        IN  /\ output.reasoning = "llm" => output.confidence = 85
            /\ output.reasoning \in {"taxonomy", "keyword"} =>
                   output.confidence =
                       IF output.retrieved_documents # <<>>
                       THEN output.retrieved_documents[1].score ELSE 50
            /\ TopHitDecides(output)

\* C20 as amended: 0.85 if the model tier fired, the top retrieval score if
\* the taxonomy tier fired, and the fixed constant 0.5 if the keyword tier
\* fired, hits retrieved or not; with the model tier failing and a top
\* taxonomy hit with domain d and score s, primary_domain = d and
\* confidence = s.
C20_ConfidenceFollowsTierKeywordFixed ==
    Classified =>
        LET output == agent_outputs["classification"]
        IN  /\ output.reasoning = "llm" => output.confidence = 85
            /\ output.reasoning = "taxonomy" =>
                   /\ output.retrieved_documents # <<>>
                   /\ output.confidence = output.retrieved_documents[1].score
            /\ output.reasoning = "keyword" => output.confidence = 50
            /\ TopHitDecides(output)

\* the taxonomy tier fired on the civic_rights hit of score 0.6 after the
\* configured model tier failed
C20_Witness ==
    /\ Classified
    /\ groq_llm = "client"
    /\ agent_outputs["classification"].reasoning = "taxonomy"
    /\ agent_outputs["classification"].result["primary_domain"] = "civic_rights"
    /\ agent_outputs["classification"].confidence = 60
    /\ Len(agent_outputs["classification"].retrieved_documents) = 2

\* the keyword tier gave the domains of a query containing the phrase
\* "right to information" in any case
KeywordTierOnPhrase ==
    /\ Classified
    /\ agent_outputs["classification"].reasoning = "keyword"
    /\ Contains(Lower(query), <<"r","i","g","h","t"," ","t","o"," ","i","n","f","o","r","m","a",
                                "t","i","o","n">>)

\* domain is one of the classified domains
HasDomain(domain) ==
    \E i \in 1..Len(agent_outputs["classification"].result["domains"]) :
        agent_outputs["classification"].result["domains"][i] = domain

\* the number of domains listed before domain in the keyword table of which
\* a keyword occurs in the query
MatchedBefore(domain) ==
    LET query_lower == Lower(query)
        at == CHOOSE i \in 1..Len(keyword_map) : keyword_map[i].domain = domain
    IN  Cardinality({ i \in 1..(at - 1) :
            \E j \in 1..Len(keyword_map[i].keywords) :
                Contains(query_lower, keyword_map[i].keywords[j]) })

\* C21 as stated: when the model tier and the taxonomy tier both yield
\* nothing, the keyword tier's result for a query containing "right to
\* information" (case-insensitive) includes civic_rights, whatever other
\* keywords the query contains.
C21_PhraseGivesCivicRights ==
    KeywordTierOnPhrase => HasDomain("civic_rights")

\* C21 as amended: the keyword tier's result for such a query includes
\* civic_rights exactly when the query contains keywords of fewer than three
\* of the domains listed before civic_rights in the keyword table.
C21_PhraseGivesCivicRightsAmongFirstThree ==
    KeywordTierOnPhrase => (HasDomain("civic_rights") <=> MatchedBefore("civic_rights") < 3)

\* the keyword tier classified a query with the phrase in capitals and
\* keywords of two earlier domains, civic_rights coming third
C21_Witness ==
    /\ KeywordTierOnPhrase
    /\ ~Contains(query, <<"r","i","g","h","t"," ","t","o"," ","i","n","f","o","r","m","a","t","i",
                          "o","n">>)
    /\ agent_outputs["classification"].result["domains"] =
           <<"property_law", "tax_law", "civic_rights">>

\* the primary_domain a step reads from the shared state
ReadPrimaryDomain == Get(context, "primary_domain", "general")

\* the hits of a reachable collection above the threshold and, when a domain
\* is given, with exactly that value in the payload's domain field
HitsOfDomain(collection_name, limit, score_threshold, domain) ==
    LET Wanted(hit) ==
            /\ hit.score >= score_threshold
            /\ domain # "general" =>
                   ("domain" \in DOMAIN hit.payload /\ hit.payload["domain"] = domain)
    IN  Take(SelectSeq(Collection(collection_name), Wanted), limit)

\* the step of that name ran without a fault in this run
RanWell(step) ==
    \E i \in 1..Len(trace) : trace[i].step = step /\ ~trace[i].faulted

\* C22: the case-similarity and the recommendation step constrain their
\* search by an exact match domain = primary_domain exactly when the
\* primary_domain they read is not "general"; primary_domain is the first
\* classified domain, and "general" when classification produced no domain or
\* the classification step faulted; with "general" no filter is applied.
C22_DomainFilterUnlessGeneral ==
    /\ pc \in {"case_similarity", "recommendation"} =>
          /\ DomainFilter(context) =
                 IF ReadPrimaryDomain # "general"
                 THEN ("domain" :> ReadPrimaryDomain) ELSE EmptyDict
          /\ ReadPrimaryDomain =
                 IF RanWell("classification") /\ context["domains"] # <<>>
                 THEN context["domains"][1] ELSE "general"
    /\ "case_similarity" \in DOMAIN agent_outputs =>
          agent_outputs["case_similarity"].retrieved_documents \in
              { <<>>, HitsOfDomain("case_law_vectors", 5, 50, ReadPrimaryDomain) }
    /\ "recommendation" \in DOMAIN agent_outputs =>
          agent_outputs["recommendation"].retrieved_documents \in
              { <<>>, HitsOfDomain("civic_process_vectors", 10, 40, ReadPrimaryDomain) }

\* the case-similarity step retrieved the civic_rights case and not the
\* better-scored administrative_law one, and the recommendation step ran
C22_Witness ==
    /\ ReadPrimaryDomain = "civic_rights"
    /\ "case_similarity" \in DOMAIN agent_outputs
    /\ "recommendation" \in DOMAIN agent_outputs
    /\ agent_outputs["recommendation"].retrieved_documents # <<>>
    /\ agent_outputs["case_similarity"].retrieved_documents # <<>>
    /\ HitsOfDomain("case_law_vectors", 5, 50, "general") #
           agent_outputs["case_similarity"].retrieved_documents

\* C23: every output of the recommendation step, from the model tier or from
\* the template tier, holds at most 5 recommendations whose sequence values
\* are 1, 2, ..., N in list order.
C23_AtMostFiveInSequence ==
    ("recommendation" \in DOMAIN agent_outputs
        /\ agent_outputs["recommendation"].has_result) =>
        LET recommendations == agent_outputs["recommendation"].result["recommendations"]
        IN  /\ agent_outputs["recommendation"].reasoning \in {"llm", "template"}
            /\ Len(recommendations) <= 5
            /\ \A i \in 1..Len(recommendations) : recommendations[i]["sequence"] = i

\* the model tier kept four of the first five items of an answer of seven
\* items, the second of them not an object
C23_Witness ==
    /\ "recommendation" \in DOMAIN agent_outputs
    /\ agent_outputs["recommendation"].has_result
    /\ agent_outputs["recommendation"].reasoning = "llm"
    /\ Len(agent_outputs["recommendation"].result["recommendations"]) = 4
    /\ agent_outputs["recommendation"].result["recommendations"][4]["sequence"] = 4

\* the case-similarity agent was called and returned cases
CasesOutput ==
    /\ "case_similarity" \in DOMAIN agent_outputs
    /\ agent_outputs["case_similarity"].has_result

\* case carries the case_name, year and source of the retrieved record hit
CopiedFrom(case, hit) ==
    /\ case["case_name"] =
           IF "case_name" \in DOMAIN hit.payload THEN hit.payload["case_name"]
           ELSE <<"U","n","k","n","o","w","n">>
    /\ case["year"] =
           IF "year" \in DOMAIN hit.payload THEN hit.payload["year"] ELSE "None"
    /\ case["source"] =
           IF "citation" \in DOMAIN hit.payload THEN hit.payload["citation"]
           ELSE IF "case_name" \in DOMAIN hit.payload THEN hit.payload["case_name"]
           ELSE <<>>

\* C24: every case of the case-similarity step's output, in either tier,
\* corresponds to one of the cases the retrieval call of the run returned,
\* with case_name, year and source copied from that record; the output never
\* holds more cases than were retrieved, nor more than 5; and every case
\* carries a non-empty source string.
C24_CasesFromRetrievalWithSource ==
    CasesOutput =>
        LET output == agent_outputs["case_similarity"]
            cases == output.result["similar_cases"]
        IN  /\ Len(cases) <= Len(output.retrieved_documents)
            /\ Len(cases) <= 5
            /\ \A i \in 1..Len(cases) :
                   /\ \E j \in 1..Len(output.retrieved_documents) :
                          CopiedFrom(cases[i], output.retrieved_documents[j])
                   /\ cases[i]["source"] # <<>>

\* the level the score bands give a score in hundredths
RelevanceBand(score) ==
    IF score > 85 THEN <<"H","i","g","h","l","y"," ","r","e","l","e","v","a","n","t">>
    ELSE IF score > 70 /\ score <= 85 THEN <<"M","o","d","e","r","a","t","e","l","y"," ","r","e",
                                             "l","e","v","a","n","t">>
    ELSE <<"P","o","t","e","n","t","i","a","l","l","y"," ","r","e","l","e","v","a","n","t">>

\* text begins with prefix
StartsWith(text, prefix) ==
    Len(text) >= Len(prefix) /\ SubSeq(text, 1, Len(prefix)) = prefix

\* C25: in the template tier of the case-similarity step the relevance
\* sentence follows strict score bands: above 0.85 "Highly relevant", above
\* 0.70 up to 0.85 "Moderately relevant", up to 0.70 "Potentially relevant";
\* exactly 0.85 is "Moderately relevant" and exactly 0.70 "Potentially
\* relevant".
C25_RelevanceBands ==
    (CasesOutput /\ agent_outputs["case_similarity"].reasoning = "template") =>
        LET cases == agent_outputs["case_similarity"].result["similar_cases"]
        IN  \A i \in 1..Len(cases) :
                /\ StartsWith(cases[i]["relevance_to_query"],
                              RelevanceBand(cases[i]["confidence"]) \o <<" ","(">>)
                /\ cases[i]["confidence"] = 85 =>
                       StartsWith(cases[i]["relevance_to_query"], <<"M","o","d","e","r","a","t",
                                                                    "e","l","y"," ","r","e","l",
                                                                    "e","v","a","n","t">>)
                /\ cases[i]["confidence"] = 70 =>
                       StartsWith(cases[i]["relevance_to_query"], <<"P","o","t","e","n","t","i",
                                                                    "a","l","l","y"," ","r","e",
                                                                    "l","e","v","a","n","t">>)

\* the template tier described cases of score 0.90, 0.85 and 0.70
C25_Witness ==
    /\ CasesOutput
    /\ agent_outputs["case_similarity"].reasoning = "template"
    /\ Len(agent_outputs["case_similarity"].result["similar_cases"]) = 3
    /\ agent_outputs["case_similarity"].result["similar_cases"][1]["confidence"] = 90
    /\ agent_outputs["case_similarity"].result["similar_cases"][2]["confidence"] = 85
    /\ agent_outputs["case_similarity"].result["similar_cases"][3]["confidence"] = 70

\* a step of the graph faults inside its node: the node's except branch
\* appends to errors
StepFaults ==
    pc \in {STEPS[i] : i \in 1..Len(STEPS)} /\ Len(errors') = Len(errors) + 1

\* C26 as stated: when a step faults inside its orchestrator node, every
\* field of the shared state the step is responsible for keeps the value it
\* had before the step was invoked; a faulting step changes nothing but the
\* errors list.
C26_FaultChangesOnlyErrors ==
    [][StepFaults =>
          /\ context' = context
          /\ agent_outputs' = agent_outputs
          /\ final_result' = final_result]_vars

\* C26 as amended: a faulting step changes nothing but the errors list,
\* except that a faulting reasoning step writes its fixed fallback
\* explanation, a faulting memory step leaves memory_operation = "store" in
\* the context, and a faulting summarization step writes an error record with
\* the query as final_result.
C26_FaultChangesOnlyErrorsButThree ==
    [][StepFaults =>
          /\ agent_outputs' = agent_outputs
          /\ case_memory_vectors' = case_memory_vectors
          /\ final_result' =
                 IF pc = "summarization"
                 THEN NodeErrorResult(query, errors'[Len(errors')].error)
                 ELSE final_result
          /\ context' =
                 IF pc = "reasoning"
                 THEN Put(context, "explanation", NODE_FAULT_EXPLANATION)
                 ELSE IF pc = "memory"
                 THEN Put(context, "memory_operation", "store")
                 ELSE context]_vars

\* the knowledge-retrieval and the reasoning step have faulted: no statutes
\* were written, the fallback explanation was
C26_Witness ==
    /\ pc = "recommendation"
    /\ {"knowledge_retrieval", "reasoning"} \subseteq FaultedSteps
    /\ Len(errors) = 2
    /\ "statutes" \notin DOMAIN context
    /\ context["explanation"] = NODE_FAULT_EXPLANATION

\* the keys of the context a step writes: its named slice; the memory step,
\* which the list does not name, writes its own two keys
NamedSlice(step) ==
    CASE step = "intake" -> {"normalized_query", "embedding"}
      [] step = "classification" -> {"domains", "primary_domain"}
      [] step = "knowledge_retrieval" -> {"statutes"}
      [] step = "case_similarity" -> {"similar_cases"}
      [] step = "reasoning" -> {"explanation"}
      [] step = "recommendation" -> {"recommendations"}
      [] step = "ethics" -> {"ethics_check"}
      [] step = "memory" -> {"memory_operation", "agent_outputs"}
      [] OTHER -> {}

\* the key of agent_outputs a step writes
OutputKey(step) == IF step = "knowledge_retrieval" THEN "knowledge" ELSE step

\* the keys of a dict that a step added or gave another value
Written(before, after) ==
    {k \in DOMAIN after : k \notin DOMAIN before \/ after[k] # before[k]}

\* a step of the graph runs
StepRuns == pc \in {STEPS[i] : i \in 1..Len(STEPS)}

SharedState == [context |-> context, agent_outputs |-> agent_outputs, errors |-> errors]

\* what the agent of the knowledge-retrieval step returns on the context ctx
KnowledgeCall(ctx, crash, embOk, reachable) ==
    Process(crash,
            KnowledgeRetrievalAgent_process(query, ctx, embOk,
                search("statutes_vectors", 5, 50, DomainFilter(ctx), reachable)))

\* what the agent of the case-similarity step returns on the context ctx
CaseCall(ctx, crash, embOk, reachable, reply) ==
    Process(crash,
            CaseSimilarityAgent_process(query, ctx, groq_llm, reply, embOk,
                search("case_law_vectors", 5, 50, DomainFilter(ctx), reachable)))

\* the knowledge-retrieval step run on the shared state st
KnowledgeStep(st, crash, embOk, reachable) ==
    RetrievalNodeWrites(st, "Knowledge retrieval error", "statutes", "knowledge",
                        KnowledgeCall(st.context, crash, embOk, reachable))

\* the case-similarity step run on the shared state st
CaseStep(st, crash, embOk, reachable, reply) ==
    RetrievalNodeWrites(st, "Case similarity error", "similar_cases", "case_similarity",
                        CaseCall(st.context, crash, embOk, reachable, reply))

\* the two steps interleaved: both read st, then both write
Interleaved(st, kcrash, ccrash, embOk, reachable, reply) ==
    RetrievalNodeWrites(
        RetrievalNodeWrites(st, "Case similarity error", "similar_cases", "case_similarity",
                            CaseCall(st.context, ccrash, embOk, reachable, reply)),
        "Knowledge retrieval error", "statutes", "knowledge",
        KnowledgeCall(st.context, kcrash, embOk, reachable))

\* the entries of a list with their number of occurrences
BagOf(list) ==
    [e \in {list[i] : i \in 1..Len(list)} |->
        Cardinality({i \in 1..Len(list) : list[i] = e})]

\* the two shared states differ at most in the order of errors
SameButErrorOrder(s, t) ==
    /\ s.context = t.context
    /\ s.agent_outputs = t.agent_outputs
    /\ BagOf(s.errors) = BagOf(t.errors)

\* the step the graph takes out of this state is the step the operator gives
StepIsTaken ==
    /\ pc = "knowledge_retrieval" =>
          \E crash, embOk, reachable \in BOOLEAN :
              [context |-> context', agent_outputs |-> agent_outputs',
               errors |-> errors'] = KnowledgeStep(SharedState, crash, embOk, reachable)
    /\ pc = "case_similarity" =>
          \E crash, embOk, reachable \in BOOLEAN, reply \in CaseReplies :
              [context |-> context', agent_outputs |-> agent_outputs',
               errors |-> errors'] = CaseStep(SharedState, crash, embOk, reachable, reply)

\* C28 as stated: the knowledge-retrieval and the case-similarity step read
\* only embedding and primary_domain and write disjoint parts of the shared
\* state, so running them in either order, or interleaved, from the same
\* state (with the same answers of the providers) yields the same final
\* shared state.
C28_EitherOrderSameState ==
    [][(StepIsTaken /\ pc = "knowledge_retrieval") =>
          \A kcrash, ccrash, embOk, reachable \in BOOLEAN, reply \in CaseReplies :
              LET st == SharedState
                  kc == CaseStep(KnowledgeStep(st, kcrash, embOk, reachable),
                                 ccrash, embOk, reachable, reply)
                  ck == KnowledgeStep(CaseStep(st, ccrash, embOk, reachable, reply),
                                      kcrash, embOk, reachable)
              IN  (kc = ck /\ kc = Interleaved(st, kcrash, ccrash, embOk, reachable, reply))
      ]_vars

\* C28 as amended: the same, except that both steps append to the errors
\* list when they fault, so the final shared states agree in everything but
\* the order of the two steps' entries in errors, and agree in that too
\* unless both steps fault.
C28_EitherOrderSameButErrorOrder ==
    [][StepIsTaken /\
       (pc = "knowledge_retrieval" =>
          \A kcrash, ccrash, embOk, reachable \in BOOLEAN, reply \in CaseReplies :
              LET st == SharedState
                  kc == CaseStep(KnowledgeStep(st, kcrash, embOk, reachable),
                                 ccrash, embOk, reachable, reply)
                  ck == KnowledgeStep(CaseStep(st, ccrash, embOk, reachable, reply),
                                      kcrash, embOk, reachable)
              IN  /\ SameButErrorOrder(kc, ck)
                  /\ ck = Interleaved(st, kcrash, ccrash, embOk, reachable, reply)
                  /\ Len(kc.errors) < Len(st.errors) + 2 => kc = ck)
      ]_vars

\* both steps have run from a state with an embedding and a primary domain,
\* the first with a fault, the second writing the cases it retrieved
C28_Witness ==
    /\ pc = "reasoning"
    /\ HasEmbedding(context)
    /\ ReadPrimaryDomain = "civic_rights"
    /\ "knowledge_retrieval" \in FaultedSteps
    /\ "case_similarity" \notin FaultedSteps
    /\ context["similar_cases"] # <<>>

\* the knowledge-retrieval step ran on a valid query and its search was
\* made: the agent was not made to fail and an embedding was at hand
StatuteSearchMade ==
    /\ validate_input(query)
    /\ \E i \in 1..Len(trace) : trace[i].step = "knowledge_retrieval"
    /\ \A i \in 1..Len(errors) :
           errors[i].prefix = "Knowledge retrieval error" =>
               errors[i].error \notin {"crash", "get_embedding"}

\* C29: for a valid query whose statute search returns k hits, the
\* knowledge-retrieval step returns a result whose statutes list has exactly
\* k entries, one per hit in retrieval order with that hit's score, and the
\* orchestrator stores this list in the shared state's statutes without
\* appending an error; with k = 0 it stores the empty list with confidence
\* 0.0.
C29_StatutesStoredPerHit ==
    StatuteSearchMade =>
        /\ "knowledge_retrieval" \notin FaultedSteps
        /\ "knowledge" \in DOMAIN agent_outputs
        /\ "statutes" \in DOMAIN context
        /\ LET output == agent_outputs["knowledge"]
               hits == output.retrieved_documents
           IN  /\ context["statutes"] = output.result["statutes"]
               /\ Len(context["statutes"]) = Len(hits)
               /\ \A i \in 1..Len(hits) : context["statutes"][i]["score"] = hits[i].score
               /\ hits = <<>> => output.confidence = 0

\* C30: when the text-generation client is unavailable, query of
\* simple_pipeline returns the context-only fallback record: marked fallback,
\* its response text ending with the disclaimer section, and not the generic
\* error record
EndsWithLines(text, lines) ==
    LET tail == Join(<< "\n" >>, lines)
    IN  /\ Len(text) >= Len(tail)
        /\ SubSeq(text, Len(text) - Len(tail) + 1, Len(text)) = tail

C30_FallbackWhenNoClient ==
    (response.status = "returned" /\ groq_llm = "None")
        => /\ "fallback" \in DOMAIN response.value
           /\ response.value["fallback"] = TRUE
           /\ "error" \notin DOMAIN response.value
           /\ response.value["response"] # PIPELINE_ERROR_TEXT
           /\ EndsWithLines(response.value["response"], FALLBACK_DISCLAIMER)
====
